---------------------------- MODULE Spec2Model ----------------------------
(***************************************************************************)
(* The FedEx access layer of shiptrackguru (server/services/fedex.ts):     *)
(* the request queue of FedExService, its worker loop (processQueue), the  *)
(* rate limiter, the retry/backoff branch and the OAuth token cache.       *)
(*                                                                         *)
(* JavaScript runs the service on one thread; other code runs only where   *)
(* the worker awaits.  Every action below is one run-to-completion         *)
(* segment of the code between two awaits.                                 *)
(*                                                                         *)
(* Time is in milliseconds.  The code reads Date.now() only to compare it  *)
(* with lastRequestTime and tokenExpiry, so the model keeps those two      *)
(* differences instead of the three absolute values:                       *)
(*   timeSinceLastRequest = Date.now() - lastRequestTime, and              *)
(*   tokenTimeLeft        = tokenExpiry - Date.now(),                      *)
(* the first cut off at minRequestInterval and the second at 0, beyond     *)
(* which the code no longer tells values apart.  A pending setTimeout or   *)
(* HTTP call carries the time left until it fires or is aborted.           *)
(***************************************************************************)
EXTENDS Integers, Sequences, FiniteSets, TLC

(* ---- bounds of the model (not program constants) ---- *)
MaxRequests == 3

(* ---- program constants ---- *)
minRequestInterval == 2000
maxRetries == 3
requestTimeout == 30000
authTimeout == 10000
TokenLifetime == 3000000

retryDelays == <<30000, 60000, 120000>>

(* tracking numbers the callers ask for *)
TrackingNumbers == {"111111111111", "222222222222"}

(* the format check of validateTrackingNumber: /^\d{12,15}$/ *)
MinDigits == 12
MaxDigits == 15

(* keys handed to validateTrackingNumber: up to MaxKeyLen characters,   *)
(* all digits or digits with one other character somewhere; a key is a *)
(* sequence of characters                                               *)
MaxKeyLen == 16
Digits == {"0", "1", "2", "3", "4", "5", "6", "7", "8", "9"}
Foreign == {"a", " ", "\n"}
DigitAt(i) ==
  <<"1", "2", "3", "4", "5", "6", "7", "8", "9", "0">>[((i - 1) % 10) + 1]
DigitString(n) == [i \in 1..n |-> DigitAt(i)]
Keys ==
  {DigitString(n) : n \in 0..MaxKeyLen}
    \cup UNION {{[DigitString(n) EXCEPT ![p] = c] : p \in 1..n, c \in Foreign}
                 : n \in 1..MaxKeyLen}

(* time the token endpoint may take to answer: the delay between the    *)
(* return of rateLimit() and the sending of the tracking call           *)
LatencyMs == 1000
Latencies == {0, LatencyMs}

(* an idle period long enough for a cached token to expire *)
IdlePeriods == {TokenLifetime}

VARIABLES
  requestQueue,         \* this.requestQueue: sequence of QueuedRequest
  isProcessingQueue,    \* this.isProcessingQueue
  timeSinceLastRequest, \* Date.now() - this.lastRequestTime
  cachedToken,          \* this.cachedToken ("null" or "token")
  tokenTimeLeft,        \* this.tokenExpiry - Date.now()
  workers,              \* the running activations of processQueue()
  nextId,               \* number of promises handed out so far, plus one
  settled,              \* per promise: how it was settled ("none": pending)
  settleOrder,          \* the requests in the order they were settled
  lastSettle,           \* the most recent settlement and what caused it
  trackCalls,           \* per request: tracking HTTP calls issued for it
  tokenCalls,           \* token HTTP calls issued in total
  timeSinceTrackCall,   \* time since the last tracking HTTP call was sent
  lastGap,              \* time between the last two tracking HTTP calls
  apiKey,               \* this.apiKey ("" when the environment has none)
  apiSecret,            \* this.apiSecret
  lastAnswer,           \* what the last call answered without the queue
  db,                   \* the shipments table, by tracking number
  rowsCreated,          \* rows inserted so far (the next row id, less one)
  sheet,                \* tracking numbers in the Output sheet
  sync,                 \* the POST /api/sync/google-sheets request in progress
  refresh,              \* the POST /api/shipments/:n/refresh in progress
  sinceFetch,           \* per shipment: time since FedEx data was last stored
  lastResponse,         \* the last answer of the refresh route
  lines,                \* test-bulk-import.js: the lines of the pasted text
  rawRows,              \* the rows parsed from the lines
  groupedByMaster,      \* Map master -> rows, in insertion order
  standaloneShipments,  \* the rows that name no master
  parsed,               \* the shipment records to be sent to the API
  script,               \* the loop the script is in, and its position
  storageCalls,         \* per caller: its call of a storage method
  spared                \* ids of the requests a worker held at a clearQueue

(* the state of the queue, the rate limiter and the token cache *)
service == <<requestQueue, isProcessingQueue, timeSinceLastRequest,
             cachedToken, tokenTimeLeft, workers, nextId, settled,
             settleOrder, lastSettle, trackCalls, tokenCalls,
             timeSinceTrackCall, lastGap>>

vars == <<requestQueue, isProcessingQueue, timeSinceLastRequest, cachedToken,
          tokenTimeLeft, workers, nextId, settled, settleOrder, lastSettle,
          trackCalls, tokenCalls, timeSinceTrackCall, lastGap,
          apiKey, apiSecret, lastAnswer,
          db, rowsCreated, sheet, sync, refresh, sinceFetch, lastResponse,
          lines, rawRows, groupedByMaster, standaloneShipments, parsed,
          script, storageCalls, spared>>

(* the shipments table, the sheet and the route handlers *)
database == <<db, rowsCreated, sheet, sync, refresh, sinceFetch,
              lastResponse>>

(* the bulk-import script *)
bulkImport == <<lines, rawRows, groupedByMaster, standaloneShipments,
                parsed, script>>

Ids == 1..MaxRequests

Max(a, b) == IF a >= b THEN a ELSE b
Min(a, b) == IF a <= b THEN a ELSE b

(* ---- the passage of d milliseconds ---- *)
Elapsed(age, d) == Min(age + d, minRequestInterval)
Remaining(left, d) == Max(left - d, 0)

(* ---- errors thrown by axios and by getAccessToken ---- *)
NoError == [status |-> 0, code |-> "", message |-> ""]
Http429 == [status |-> 429, code |-> "ERR_BAD_REQUEST",
            message |-> "Request failed with status code 429"]
Http500 == [status |-> 500, code |-> "ERR_BAD_RESPONSE",
            message |-> "Request failed with status code 500"]
TimeoutError == [status |-> 0, code |-> "ECONNABORTED",
                 message |-> "timeout of 30000ms exceeded"]
AuthError == [status |-> 0, code |-> "",
              message |-> "Failed to authenticate with FedEx API"]

(* message.includes('rate limit') || message.includes('429') *)
MessageMentionsRateLimit(message) ==
  message \in {"Request failed with status code 429"}

isRateLimitError(error) ==
  error.status = 429 \/ MessageMentionsRateLimit(error.message)

(* ---- what fetchTrackingInfo hands back to processQueue; `cause` is ---- *)
(* ---- the upstream answer that led to it                            ---- *)
NoResult == [kind |-> "none", value |-> "", error |-> NoError, cause |-> ""]
Returned(v, cause) ==
  [kind |-> "return", value |-> v, error |-> NoError, cause |-> cause]
Thrown(e, cause) ==
  [kind |-> "throw", value |-> "", error |-> e, cause |-> cause]

(* parseTrackingResponse: a body without track results parses to null *)
parseTrackingResponse(body) ==
  IF body = "results" THEN "info" ELSE "null"

(* fetchCatch with a fault: a timeout is rethrown to processQueue *)
fetchCatch_TimeoutRethrown(error, cause) ==
  IF isRateLimitError(error) \/ error.code = "ECONNABORTED"
    THEN Thrown(error, cause)
    ELSE Returned("null", cause)

(* the catch block of fetchTrackingInfo *)
fetchCatch(error, cause) ==
  IF isRateLimitError(error) THEN Thrown(error, cause)
  ELSE IF error.code = "ECONNABORTED" THEN Returned("null", cause)
  ELSE Returned("null", cause)

NoCalls == [token |-> 0, track |-> 0]

(* one activation of processQueue(): where it awaits (pc), its local     *)
(* `request`, the time left on the timer or HTTP call it awaits, the     *)
(* value it is about to receive, and the HTTP calls it has issued since  *)
(* it dequeued `request`                                                 *)
Worker(pc, request, at, result, calls) ==
  [pc |-> pc, request |-> request, at |-> at, result |-> result,
   calls |-> calls]

(* time a worker can let pass before it runs again *)
TimeLeft(w) ==
  IF w.pc \in {"rateLimitSleep", "backoff", "tokenCall", "trackCall"}
    THEN w.at ELSE 0

(* d ms later; a request in its backoff delay has spent that time there *)
Later(w, d) ==
  [w EXCEPT !.at = Remaining(@, d),
            !.request.backedOff =
               IF w.pc = "backoff" THEN @ + Min(d, w.at) ELSE @]

(* isConfigured with a fault: the secret is not looked at *)
isConfigured_KeyOnly == apiKey # ""

(* isConfigured(): !!(this.apiKey && this.apiSecret) *)
isConfigured == apiKey # "" /\ apiSecret # ""

NoAnswer == [op |-> "", key |-> <<>>, value |-> ""]
Answer(op, key, value) == [op |-> op, key |-> key, value |-> value]

(***************************************************************************)
(* The shipments table (shared/schema.ts, server/storage.ts) and the two   *)
(* routes that bring FedEx data into it (server/routes.ts): the Google     *)
(* Sheets sync and the refresh of one shipment.  JS null, undefined and    *)
(* the empty string are all written "", an absent array <<>>.  A row keeps *)
(* the time since its lastUpdate, cut off at MaxAge, beyond which          *)
(* shouldRefreshShipment no longer tells ages apart.                       *)
(***************************************************************************)
MsPerHour == 3600000
MaxAge == 2 * MsPerHour

(* the step of the clock between requests *)
TickMs == 1800000

(* rows the table is given in one run of the model *)
MaxRows == 2

Older(age, d) == Min(age + d, MaxAge)

(* a || b on strings *)
Or(a, b) == IF a # "" THEN a ELSE b

(* FedExTrackingInfo, or null *)
NullInfo ==
  [isNull |-> TRUE, status |-> "", estimatedDelivery |-> "",
   childTrackingNumbers |-> <<>>]
Info(status, estimatedDelivery, childTrackingNumbers) ==
  [isNull |-> FALSE, status |-> status,
   estimatedDelivery |-> estimatedDelivery,
   childTrackingNumbers |-> childTrackingNumbers]

(* what FedEx may report for a shipment *)
FedExAnswers ==
  {Info("pending", "", <<>>),
   Info("in_transit", "2025-01-02", <<>>),
   Info("out_for_delivery", "2025-01-02", <<"333333333333">>),
   Info("exception", "", <<>>),
   Info("delivered", "", <<>>)}

(* JSON.stringify(fedexData) and JSON.parse of such a text: the text     *)
(* lists the values of the keys, a key that is undefined left empty;     *)
(* the column holds <<>> for no text                                     *)
stringify(info) ==
  IF info.isNull THEN <<"null">>
  ELSE <<info.status, info.estimatedDelivery, info.childTrackingNumbers>>
parse(text) ==
  IF text = <<"null">> THEN NullInfo ELSE Info(text[1], text[2], text[3])

(* a row of shipments; id 0: no such row *)
NoShipment ==
  [id |-> 0, status |-> "", sinceLastUpdate |-> 0, manuallyCompleted |-> 0,
   notScanned |-> 0, scheduledDelivery |-> "", fedexRawData |-> <<>>,
   childTrackingNumbers |-> <<>>]
Exists(shipment) == shipment.id # 0

(* the tracking numbers the Output sheet may list, in the order of its  *)
(* rows; the other tracking numbers are in no sheet and no table        *)
SheetOrder == <<"111111111111">>
SheetNumbers == {SheetOrder[i] : i \in 1..Len(SheetOrder)}

(* the tracking number no sheet lists, and the order in which *)
(* getAllShipments returns the shipments                      *)
Unlisted == CHOOSE t \in TrackingNumbers : t \notin SheetNumbers
ShipmentsOrder == SheetOrder \o <<Unlisted>>

(* the rows of a sheet that lists the tracking numbers of S *)
InSheet(S, t) == t \in S
Rows(S) == SelectSeq(SheetOrder, LAMBDA t : InSheet(S, t))

NoData ==
  [trackingNumber |-> "", status |-> "", scheduledDelivery |-> "",
   fedexRawData |-> <<>>, childTrackingNumbers |-> <<>>]

(* the sync request: where it awaits, the sheet rows it read, the rows    *)
(* still to process (the first one is the row in hand), its copy of the  *)
(* table                                                                 *)
(* (dbShipments), the shipments still to delete, the record it is about  *)
(* to upsert, whether that record holds the answer of a call to FedEx,   *)
(* and the row upsertShipment found                                      *)
IdleSync ==
  [pc |-> "idle", sheetData |-> <<>>, rows |-> <<>>,
   dbShipments |-> [t \in TrackingNumbers |-> NoShipment],
   toDelete |-> <<>>, shipmentData |-> NoData, fetched |-> FALSE,
   existing |-> 0]

(* the refresh request: where it awaits, its tracking number, the        *)
(* shipment it read, the answer of FedEx and what led to it              *)
IdleRefresh ==
  [pc |-> "idle", trackingNumber |-> "", shipment |-> NoShipment,
   fedexData |-> NullInfo, cause |-> ""]

NoResponse ==
  [status |-> 0, message |-> "", shipment |-> NoShipment, cause |-> ""]

(* the position of the bulk-import script: the loop it is in and the *)
(* index of the next element; no script is running                    *)
At(pc, index) == [pc |-> pc, index |-> index]
Done == At("done", 0)

NoImport ==
  /\ lines = <<>>
  /\ rawRows = <<>>
  /\ groupedByMaster = <<>>
  /\ standaloneShipments = <<>>
  /\ parsed = <<>>
  /\ script = Done

(* the callers of the storage methods; a caller makes one call *)
MaxCallers == 2
Callers == 1..MaxCallers

(* a call of upsertShipment or updateChildTrackingNumbers: where it     *)
(* awaits, its arguments, the row its read returned, how it ended, and  *)
(* its place among the writes made (seq, a ghost field)                 *)
IdleCall ==
  [op |-> "", pc |-> "idle", insertShipment |-> NoData,
   trackingNumber |-> "", childTrackingNumbers |-> <<>>,
   existing |-> NoShipment, result |-> "", seq |-> 0]

NoCallers == storageCalls = [c \in Callers |-> IdleCall]

(* the table and the handlers when the server has started *)
EmptyDatabase ==
  /\ db = [t \in TrackingNumbers |-> NoShipment]
  /\ rowsCreated = 0
  /\ sheet = {}
  /\ sync = IdleSync
  /\ refresh = IdleRefresh
  /\ sinceFetch = [t \in TrackingNumbers |-> MaxAge]
  /\ lastResponse = NoResponse

(* the service as the constructor leaves it, whatever the credentials *)
Constructed ==
  /\ requestQueue = <<>>
  /\ isProcessingQueue = FALSE
  /\ timeSinceLastRequest = minRequestInterval
  /\ cachedToken = "null"
  /\ tokenTimeLeft = 0
  /\ workers = {}
  /\ nextId = 1
  /\ settled = [i \in Ids |-> "none"]
  /\ settleOrder = <<>>
  /\ lastSettle = [id |-> 0, value |-> "none", cause |-> "", retryCount |-> 0]
  /\ trackCalls = [i \in Ids |-> 0]
  /\ tokenCalls = 0
  /\ timeSinceTrackCall = minRequestInterval
  /\ lastGap = minRequestInterval
  /\ lastAnswer = NoAnswer
  /\ spared = {}

(* a service whose environment holds both credentials *)
Init ==
  /\ Constructed
  /\ NoCallers
  /\ NoImport
  /\ apiKey = "key"
  /\ apiSecret = "secret"
  /\ EmptyDatabase

(* rateLimit() up to its first await, entered `since` ms after           *)
(* lastRequestTime                                                        *)
rateLimitEnter(request, since) ==
  IF since < minRequestInterval
    THEN Worker("rateLimitSleep", request, minRequestInterval - since,
                NoResult, NoCalls)
    ELSE Worker("rateLimitDone", request, 0, NoResult, NoCalls)

(* push with a fault: a request is dropped when the queue already holds *)
(* one for the same tracking number                                     *)
push_IfAbsent(q, request) ==
  IF \E i \in 1..Len(q) : q[i].trackingNumber = request.trackingNumber
    THEN q ELSE Append(q, request)

(* push with a fault: requestQueue.unshift(request), ahead of the queue *)
unshift(q, request) == <<request>> \o q

(* requestQueue.push(request): behind everything the queue holds *)
push(q, request) == Append(q, request)

(* shift with a fault: requestQueue.pop(), the newest request first *)
pop(q) == [request |-> q[Len(q)], rest |-> SubSeq(q, 1, Len(q) - 1)]

(* shift with a fault: the oldest request is read but left in the queue *)
shift_Peek(q) == [request |-> Head(q), rest |-> q]

(* requestQueue.shift(): the oldest request and the rest of the queue *)
shift(q) == [request |-> Head(q), rest |-> Tail(q)]

(* LoopHead with a fault: processQueue never sets isProcessingQueue *)
LoopHead_FlagNotSet(others, q, since) ==
  IF Len(q) > 0
    THEN /\ requestQueue' = shift(q).rest
         /\ isProcessingQueue' = FALSE
         /\ workers' = others \cup {rateLimitEnter(shift(q).request, since)}
         /\ timeSinceLastRequest' =
              IF since < minRequestInterval THEN since ELSE 0
    ELSE /\ requestQueue' = q
         /\ isProcessingQueue' = FALSE
         /\ workers' = others
         /\ timeSinceLastRequest' = since

(* LoopHead with a fault: processQueue leaves isProcessingQueue set on exit *)
LoopHead_FlagNotReset(others, q, since) ==
  IF Len(q) > 0
    THEN /\ requestQueue' = shift(q).rest
         /\ isProcessingQueue' = TRUE
         /\ workers' = others \cup {rateLimitEnter(shift(q).request, since)}
         /\ timeSinceLastRequest' =
              IF since < minRequestInterval THEN since ELSE 0
    ELSE /\ requestQueue' = q
         /\ isProcessingQueue' = isProcessingQueue
         /\ workers' = others
         /\ timeSinceLastRequest' = since

(* The head of the while loop of processQueue, run with queue q, `since` *)
(* ms after lastRequestTime, by a worker not in `others`: shift the      *)
(* oldest request and enter rateLimit(), or leave the loop.              *)
LoopHead(others, q, since) ==
  IF Len(q) > 0
    THEN /\ requestQueue' = shift(q).rest
         /\ isProcessingQueue' = TRUE
         /\ workers' = others \cup {rateLimitEnter(shift(q).request, since)}
         /\ timeSinceLastRequest' =
              IF since < minRequestInterval THEN since ELSE 0
    ELSE /\ requestQueue' = q
         /\ isProcessingQueue' = FALSE
         /\ workers' = others
         /\ timeSinceLastRequest' = since

(* getTrackingInfo(trackingNumber): null at once when the API is not     *)
(* configured; else push, then start processQueue() unless one runs      *)
getTrackingInfo(trackingNumber) ==
  IF ~isConfigured
    THEN /\ lastAnswer' = Answer("getTrackingInfo", trackingNumber, "null")
         /\ UNCHANGED <<service, apiKey, apiSecret, database,
                        bulkImport, storageCalls, spared>>
    ELSE /\ nextId <= MaxRequests
         /\ LET request == [id |-> nextId, trackingNumber |-> trackingNumber,
                            retryCount |-> 0, backedOff |-> 0]
                q == push(requestQueue, request)
            IN IF ~isProcessingQueue
                 THEN LoopHead(workers, q, timeSinceLastRequest)
                 ELSE /\ requestQueue' = q
                      /\ UNCHANGED <<isProcessingQueue, workers,
                                     timeSinceLastRequest>>
         /\ nextId' = nextId + 1
         /\ UNCHANGED <<apiKey, apiSecret, lastAnswer, database,
                        bulkImport, storageCalls, spared>>
         /\ UNCHANGED <<cachedToken, tokenTimeLeft, settled, settleOrder,
                        lastSettle, trackCalls, tokenCalls,
                        timeSinceTrackCall, lastGap>>

(* \d{min,max} tried at position i of s: the digits it takes, at most max *)
RECURSIVE matchDigits(_, _, _)
matchDigits(s, i, max) ==
  IF i <= Len(s) /\ max > 0 /\ s[i] \in Digits
    THEN 1 + matchDigits(s, i + 1, max - 1)
    ELSE 0

(* /^\d{12,15}$/.test(s): the quantifier takes what digits it can from   *)
(* the start and gives them back until $ meets the end of the input     *)
regexTest(s) ==
  LET taken == matchDigits(s, 1, MaxDigits)
  IN \E m \in MinDigits..taken : m = Len(s)

(* validateTrackingNumber(trackingNumber): the format check when the API *)
(* is not configured; else a lookup through getTrackingInfo, and the     *)
(* answer is whether that lookup is resolved with data                   *)
validateTrackingNumber(trackingNumber) ==
  IF ~isConfigured
    THEN /\ lastAnswer' =
              Answer("validateTrackingNumber", trackingNumber,
                     IF regexTest(trackingNumber) THEN "true" ELSE "false")
         /\ UNCHANGED <<service, apiKey, apiSecret, database,
                        bulkImport, storageCalls, spared>>
    ELSE getTrackingInfo(trackingNumber)

(* clearQueue(); the request a worker holds at that moment is noted *)
(* (spared, a ghost): the clear passes it by                        *)
clearQueue ==
  /\ requestQueue # <<>>
  /\ requestQueue' = <<>>
  /\ spared' = spared \cup {w.request.id : w \in workers}
  /\ UNCHANGED <<apiKey, apiSecret, lastAnswer, database,
                 bulkImport, storageCalls>>
  /\ UNCHANGED <<workers, isProcessingQueue, timeSinceLastRequest, cachedToken,
                 tokenTimeLeft, nextId, settled, settleOrder,
                 lastSettle, trackCalls, tokenCalls, timeSinceTrackCall,
                 lastGap>>

(* the setTimeout of rateLimit() fires: lastRequestTime = Date.now() *)
RateLimitWake(w) ==
  /\ w.pc = "rateLimitSleep"
  /\ timeSinceLastRequest' = 0
  /\ tokenTimeLeft' = Remaining(tokenTimeLeft, w.at)
  /\ timeSinceTrackCall' = Elapsed(timeSinceTrackCall, w.at)
  /\ workers' = {Later(o, w.at) : o \in workers \ {w}}
       \cup {Worker("rateLimitDone", w.request, 0, NoResult, w.calls)}
  /\ UNCHANGED <<apiKey, apiSecret, lastAnswer, database,
                 bulkImport, storageCalls, spared>>
  /\ UNCHANGED <<requestQueue, isProcessingQueue, cachedToken, nextId,
                 settled, settleOrder, lastSettle, trackCalls, tokenCalls,
                 lastGap>>

(* TokenIsFresh with a fault: the expiry is not looked at *)
TokenIsFresh_NoExpiry == cachedToken # "null"

(* the check at the top of getAccessToken(): cachedToken && now < expiry *)
TokenIsFresh == cachedToken # "null" /\ tokenTimeLeft > 0

(* processQueue resumes after rateLimit() and calls fetchTrackingInfo,   *)
(* which calls getAccessToken: the cached token, or a token HTTP call    *)
FetchTrackingInfo(w) ==
  /\ w.pc = "rateLimitDone"
  /\ IF TokenIsFresh
       THEN /\ workers' = (workers \ {w})
                  \cup {Worker("tokenDone", w.request, 0, NoResult, w.calls)}
            /\ UNCHANGED tokenCalls
       ELSE /\ workers' = (workers \ {w})
                  \cup {Worker("tokenCall", w.request, authTimeout, NoResult,
                               [w.calls EXCEPT !.token = @ + 1])}
            /\ tokenCalls' = tokenCalls + 1
  /\ UNCHANGED <<apiKey, apiSecret, lastAnswer, database,
                 bulkImport, storageCalls, spared>>
  /\ UNCHANGED <<requestQueue, isProcessingQueue, timeSinceLastRequest,
                 cachedToken, tokenTimeLeft, nextId, settled, settleOrder,
                 lastSettle, trackCalls, timeSinceTrackCall, lastGap>>

(* TokenResponse with a fault: a failed authentication clears the cache *)
TokenResponse_FailureClearsCache(w, ok, d) ==
  /\ w.pc = "tokenCall"
  /\ d <= w.at
  /\ IF ok
       THEN /\ cachedToken' = "token"
            /\ tokenTimeLeft' = TokenLifetime
            /\ workers' = {Later(o, d) : o \in workers \ {w}}
                 \cup {Worker("tokenDone", w.request, 0, NoResult, w.calls)}
       ELSE /\ workers' = {Later(o, d) : o \in workers \ {w}}
                 \cup {Worker("fetchDone", w.request, 0,
                              fetchCatch(AuthError, "authFailure"), w.calls)}
            /\ cachedToken' = "null"
            /\ tokenTimeLeft' = 0
  /\ timeSinceLastRequest' = Elapsed(timeSinceLastRequest, d)
  /\ timeSinceTrackCall' = Elapsed(timeSinceTrackCall, d)
  /\ UNCHANGED <<apiKey, apiSecret, lastAnswer, database,
                 bulkImport, storageCalls, spared>>
  /\ UNCHANGED <<requestQueue, isProcessingQueue, nextId, settled,
                 settleOrder, lastSettle, trackCalls, tokenCalls, lastGap>>

(* the token HTTP call answers after d ms: a token, or any failure (bad  *)
(* credentials, no access_token in the body, the 10 s timeout), which    *)
(* getAccessToken rethrows as AuthError and fetchTrackingInfo catches    *)
TokenResponse(w, ok, d) ==
  /\ w.pc = "tokenCall"
  /\ d <= w.at
  /\ IF ok
       THEN /\ cachedToken' = "token"
            /\ tokenTimeLeft' = TokenLifetime
            /\ workers' = {Later(o, d) : o \in workers \ {w}}
                 \cup {Worker("tokenDone", w.request, 0, NoResult, w.calls)}
       ELSE /\ workers' = {Later(o, d) : o \in workers \ {w}}
                 \cup {Worker("fetchDone", w.request, 0,
                              fetchCatch(AuthError, "authFailure"), w.calls)}
            /\ cachedToken' = cachedToken
            /\ tokenTimeLeft' = Remaining(tokenTimeLeft, d)
  /\ timeSinceLastRequest' = Elapsed(timeSinceLastRequest, d)
  /\ timeSinceTrackCall' = Elapsed(timeSinceTrackCall, d)
  /\ UNCHANGED <<apiKey, apiSecret, lastAnswer, database,
                 bulkImport, storageCalls, spared>>
  /\ UNCHANGED <<requestQueue, isProcessingQueue, nextId, settled,
                 settleOrder, lastSettle, trackCalls, tokenCalls, lastGap>>

(* fetchTrackingInfo resumes with the token and posts the tracking call *)
PostTracking(w) ==
  /\ w.pc = "tokenDone"
  /\ workers' = (workers \ {w})
       \cup {Worker("trackCall", w.request, requestTimeout, NoResult,
                    [w.calls EXCEPT !.track = @ + 1])}
  /\ trackCalls' = [trackCalls EXCEPT ![w.request.id] = @ + 1]
  /\ lastGap' = timeSinceTrackCall
  /\ timeSinceTrackCall' = 0
  /\ UNCHANGED <<apiKey, apiSecret, lastAnswer, database,
                 bulkImport, storageCalls, spared>>
  /\ UNCHANGED <<requestQueue, isProcessingQueue, timeSinceLastRequest,
                 cachedToken, tokenTimeLeft, nextId, settled, settleOrder,
                 lastSettle, tokenCalls>>

(* answers of the tracking endpoint *)
TrackingOutcomes == {"results", "empty", "429", "500"}

(* fetchOutcome with a fault: an empty body is thrown as a rate-limit error *)
fetchOutcome_EmptyRetried(outcome) ==
  CASE outcome = "results" -> Returned(parseTrackingResponse("results"), outcome)
    [] outcome = "empty" -> Thrown(Http429, outcome)
    [] outcome = "429" -> fetchCatch(Http429, outcome)
    [] outcome = "500" -> fetchCatch(Http500, outcome)
    [] outcome = "timeout" -> fetchCatch(TimeoutError, outcome)

(* what fetchTrackingInfo makes of an answer of the tracking endpoint *)
fetchOutcome(outcome) ==
  CASE outcome = "results" -> Returned(parseTrackingResponse("results"), outcome)
    [] outcome = "empty" -> Returned(parseTrackingResponse("empty"), outcome)
    [] outcome = "429" -> fetchCatch(Http429, outcome)
    [] outcome = "500" -> fetchCatch(Http500, outcome)
    [] outcome = "timeout" -> fetchCatch(TimeoutError, outcome)

(* the tracking HTTP call ends, d ms after it was last looked at *)
TrackingEnds(w, outcome, d) ==
  /\ workers' = {Later(o, d) : o \in workers \ {w}}
       \cup {Worker("fetchDone", w.request, 0, fetchOutcome(outcome),
                    w.calls)}
  /\ timeSinceLastRequest' = Elapsed(timeSinceLastRequest, d)
  /\ timeSinceTrackCall' = Elapsed(timeSinceTrackCall, d)
  /\ tokenTimeLeft' = Remaining(tokenTimeLeft, d)
  /\ UNCHANGED <<apiKey, apiSecret, lastAnswer, database,
                 bulkImport, storageCalls, spared>>
  /\ UNCHANGED <<requestQueue, isProcessingQueue, cachedToken, nextId,
                 settled, settleOrder, lastSettle, trackCalls, tokenCalls,
                 lastGap>>

(* the tracking endpoint answers (at once, on the model's clock) *)
TrackingResponse(w, outcome) ==
  /\ w.pc = "trackCall"
  /\ TrackingEnds(w, outcome, 0)

(* axios aborts the tracking call when requestTimeout has passed *)
TrackingTimeout(w) ==
  /\ w.pc = "trackCall"
  /\ TrackingEnds(w, "timeout", w.at)

(* request.resolve / request.reject *)
Settle(request, value, cause) ==
  /\ settled' = [settled EXCEPT ![request.id] = value]
  /\ settleOrder' = Append(settleOrder, [id |-> request.id,
                                          retryCount |-> request.retryCount])
  /\ lastSettle' = [id |-> request.id, value |-> value, cause |-> cause,
                    retryCount |-> request.retryCount]

(* MayRetry with a fault: rate-limit errors are never retried *)
MayRetry_Never(request) == FALSE

(* MayRetry with a fault: one retry short *)
MayRetry_OneShort(request) == request.retryCount < maxRetries - 1

(* MayRetry with a fault: <= for < *)
MayRetry_OneMore(request) == request.retryCount <= maxRetries

(* may the retry branch re-queue this request? *)
MayRetry(request) == request.retryCount < maxRetries

(* retryDelay with a fault: every retry waits the first delay *)
retryDelay_FirstSlot(retryCount) == retryDelays[1]

(* this.retryDelays[retryCount]; an index past the end reads undefined, *)
(* which setTimeout takes as no delay                                   *)
retryDelay(retryCount) ==
  IF retryCount < Len(retryDelays) THEN retryDelays[retryCount + 1] ELSE 0

(* ProcessResult with a fault: the backoff timer is left to run on its *)
(* own and the loop goes on to its next iteration at once               *)
ProcessResult_DetachedBackoff(w) ==
  /\ w.pc = "fetchDone"
  /\ LET request == w.request
         others == workers \ {w}
     IN IF w.result.kind = "return"
          THEN /\ Settle(request, w.result.value, w.result.cause)
               /\ LoopHead(others, requestQueue, timeSinceLastRequest)
          ELSE IF isRateLimitError(w.result.error)
            THEN IF MayRetry(request)
              THEN /\ LoopHead(others \cup
                                {Worker("backoff",
                                        [request EXCEPT !.retryCount = @ + 1],
                                        retryDelay(request.retryCount),
                                        NoResult, w.calls)},
                               requestQueue, timeSinceLastRequest)
                   /\ UNCHANGED <<settled, settleOrder, lastSettle>>
              ELSE /\ Settle(request, "RetriesExhausted", w.result.cause)
                   /\ LoopHead(others, requestQueue, timeSinceLastRequest)
            ELSE /\ Settle(request, "error", w.result.cause)
                 /\ LoopHead(others, requestQueue, timeSinceLastRequest)
  /\ UNCHANGED <<apiKey, apiSecret, lastAnswer, database,
                 bulkImport, storageCalls, spared>>
  /\ UNCHANGED <<cachedToken, tokenTimeLeft, nextId, trackCalls, tokenCalls,
                 timeSinceTrackCall, lastGap>>

(* processQueue resumes after fetchTrackingInfo: resolve, or the catch   *)
(* block (retry with backoff, or reject), then the next loop iteration   *)
ProcessResult(w) ==
  /\ w.pc = "fetchDone"
  /\ LET request == w.request
         others == workers \ {w}
     IN IF w.result.kind = "return"
          THEN /\ Settle(request, w.result.value, w.result.cause)
               /\ LoopHead(others, requestQueue, timeSinceLastRequest)
          ELSE IF isRateLimitError(w.result.error)
            THEN IF MayRetry(request)
              THEN /\ workers' = others \cup
                        {Worker("backoff",
                                [request EXCEPT !.retryCount = @ + 1],
                                retryDelay(request.retryCount),
                                NoResult, w.calls)}
                   /\ UNCHANGED <<settled, settleOrder, lastSettle,
                                  requestQueue, isProcessingQueue,
                                  timeSinceLastRequest>>
              ELSE /\ Settle(request, "RetriesExhausted", w.result.cause)
                   /\ LoopHead(others, requestQueue, timeSinceLastRequest)
            ELSE /\ Settle(request, "error", w.result.cause)
                 /\ LoopHead(others, requestQueue, timeSinceLastRequest)
  /\ UNCHANGED <<apiKey, apiSecret, lastAnswer, database,
                 bulkImport, storageCalls, spared>>
  /\ UNCHANGED <<cachedToken, tokenTimeLeft, nextId, trackCalls, tokenCalls,
                 timeSinceTrackCall, lastGap>>

(* the backoff setTimeout fires: push the request back, next iteration *)
BackoffWake(w) ==
  /\ w.pc = "backoff"
  /\ LoopHead({Later(o, w.at) : o \in workers \ {w}},
              push(requestQueue, Later(w, w.at).request),
              Elapsed(timeSinceLastRequest, w.at))
  /\ tokenTimeLeft' = Remaining(tokenTimeLeft, w.at)
  /\ timeSinceTrackCall' = Elapsed(timeSinceTrackCall, w.at)
  /\ UNCHANGED <<apiKey, apiSecret, lastAnswer, database,
                 bulkImport, storageCalls, spared>>
  /\ UNCHANGED <<cachedToken, nextId, settled, settleOrder, lastSettle,
                 trackCalls, tokenCalls, lastGap>>

(* d ms pass with nothing due *)
Tick(d) ==
  /\ \A w \in workers : d <= TimeLeft(w)
  /\ timeSinceLastRequest' = Elapsed(timeSinceLastRequest, d)
  /\ timeSinceTrackCall' = Elapsed(timeSinceTrackCall, d)
  /\ tokenTimeLeft' = Remaining(tokenTimeLeft, d)
  /\ workers' = {Later(o, d) : o \in workers}
  /\ UNCHANGED <<apiKey, apiSecret, lastAnswer, database,
                 bulkImport, storageCalls, spared>>
  /\ UNCHANGED <<requestQueue, isProcessingQueue, cachedToken, nextId,
                 settled, settleOrder, lastSettle, trackCalls, tokenCalls,
                 lastGap>>

Next ==
  \/ \E k \in TrackingNumbers : getTrackingInfo(k)
  \/ clearQueue
  \/ \E w \in workers : RateLimitWake(w)
  \/ \E w \in workers : FetchTrackingInfo(w)
  \/ \E w \in workers : \E ok \in BOOLEAN : \E d \in Latencies :
       TokenResponse(w, ok, d)
  \/ \E w \in workers : PostTracking(w)
  \/ \E w \in workers : \E o \in TrackingOutcomes : TrackingResponse(w, o)
  \/ \E w \in workers : TrackingTimeout(w)
  \/ \E w \in workers : ProcessResult(w)
  \/ \E w \in workers : BackoffWake(w)
  \/ \E d \in IdlePeriods : Tick(d)

Spec == Init /\ [][Next]_vars

(* the steps of the worker: its timers fire and its HTTP calls end, *)
(* each within a bounded time                                       *)
WorkerStep ==
  \/ \E w \in workers : RateLimitWake(w)
  \/ \E w \in workers : FetchTrackingInfo(w)
  \/ \E w \in workers : \E ok \in BOOLEAN : \E d \in Latencies :
       TokenResponse(w, ok, d)
  \/ \E w \in workers : PostTracking(w)
  \/ \E w \in workers : \E o \in TrackingOutcomes : TrackingResponse(w, o)
  \/ \E w \in workers : TrackingTimeout(w)
  \/ \E w \in workers : ProcessResult(w)
  \/ \E w \in workers : BackoffWake(w)

(* the service on an event loop that runs what is due *)
SpecFair == Spec /\ WF_vars(WorkerStep)

(* getQueueStatus(): the length of the queue and the flag; nothing is  *)
(* written                                                            *)
getQueueStatus ==
  /\ lastAnswer' = Answer("getQueueStatus", <<>>,
                         [queueLength |-> Len(requestQueue),
                          isProcessing |-> isProcessingQueue])
  /\ UNCHANGED <<service, apiKey, apiSecret, database,
                 bulkImport, storageCalls, spared>>

(* the service with its monitoring endpoint in use *)
NextMonitored ==
  \/ Next
  \/ getQueueStatus

SpecMonitored == Init /\ [][NextMonitored]_vars

(* ---- the service without its credentials ---- *)
InitUnconfigured ==
  /\ Constructed
  /\ NoCallers
  /\ NoImport
  /\ apiKey \in {"", "key"}
  /\ apiSecret \in {"", "secret"}
  /\ apiKey = "" \/ apiSecret = ""
  /\ EmptyDatabase

NextUnconfigured ==
  \/ \E k \in TrackingNumbers : getTrackingInfo(k)
  \/ \E k \in Keys : validateTrackingNumber(k)

SpecUnconfigured == InitUnconfigured /\ [][NextUnconfigured]_vars


(***************************************************************************)
(* The routes.  Each action is the code between two awaits of a handler.   *)
(* A call of fedExService.getTrackingInfo is awaited as a whole: the       *)
(* queue model above settles such a call in one of the ways `settlement`   *)
(* lists.                                                                  *)
(***************************************************************************)

(* how the promise of getTrackingInfo is settled when the upstream       *)
(* answer that ends the lookup is `outcome`: processQueue resolves with  *)
(* what fetchTrackingInfo returns, rejects a rate-limit error once the   *)
(* retries are used up, and rejects any other error                      *)
settlement(outcome) ==
  LET result == IF outcome = "authFailure"
                  THEN fetchCatch(AuthError, outcome)
                  ELSE fetchOutcome(outcome)
  IN IF result.kind = "return"
       THEN [kind |-> "resolve", value |-> result.value]
       ELSE IF isRateLimitError(result.error)
         THEN [kind |-> "reject", value |-> "RetriesExhausted"]
         ELSE [kind |-> "reject", value |-> "error"]

Outcomes == TrackingOutcomes \cup {"timeout", "authFailure"}

(* the data a settled lookup hands to its caller *)
fedexDataOf(outcome, answer) ==
  IF settlement(outcome).kind = "resolve" /\ settlement(outcome).value = "info"
    THEN answer ELSE NullInfo

(* shouldRefreshShipment with a fault: the age is looked at first, and a *)
(* delivered shipment is refreshed once it is two hours old              *)
shouldRefreshShipment_DeliveredAges(shipment) ==
  IF ~Exists(shipment) THEN TRUE
  ELSE IF shipment.sinceLastUpdate >= 2 * MsPerHour THEN TRUE
  ELSE IF shipment.status = "delivered" \/ shipment.manuallyCompleted = 1
    THEN FALSE
  ELSE IF shipment.status = "out_for_delivery"
          /\ 2 * shipment.sinceLastUpdate < MsPerHour THEN FALSE
  ELSE IF shipment.status = "in_transit"
          /\ shipment.sinceLastUpdate < 2 * MsPerHour THEN FALSE
  ELSE IF shipment.status \in {"pending", "exception"}
          /\ shipment.sinceLastUpdate < MsPerHour THEN FALSE
  ELSE TRUE

(* shouldRefreshShipment(shipment); hoursSinceUpdate < 0.5 is written    *)
(* 2 * sinceLastUpdate < MsPerHour; a row always has a lastUpdate        *)
shouldRefreshShipment(shipment) ==
  IF ~Exists(shipment) THEN TRUE
  ELSE IF shipment.status = "delivered" \/ shipment.manuallyCompleted = 1
    THEN FALSE
  ELSE IF shipment.status = "out_for_delivery"
          /\ 2 * shipment.sinceLastUpdate < MsPerHour THEN FALSE
  ELSE IF shipment.status = "in_transit"
          /\ shipment.sinceLastUpdate < 2 * MsPerHour THEN FALSE
  ELSE IF shipment.status \in {"pending", "exception"}
          /\ shipment.sinceLastUpdate < MsPerHour THEN FALSE
  ELSE TRUE

(* updateShipment with a fault: the child list of `updates` is always    *)
(* written, as if the routes put the key in whatever FedEx returned      *)
updateShipment_ChildrenWritten(table, trackingNumber, id, updates) ==
  IF table[trackingNumber].id # id \/ id = 0 THEN table
  ELSE [table EXCEPT ![trackingNumber] =
          [@ EXCEPT !.status = updates.status,
                    !.scheduledDelivery = updates.scheduledDelivery,
                    !.fedexRawData = updates.fedexRawData,
                    !.childTrackingNumbers = updates.childTrackingNumbers,
                    !.sinceLastUpdate = 0]]

(* storage.updateShipment(id, updates): the row with that id gets the    *)
(* keys of `updates` (an empty child list stands for no such key) and a  *)
(* new lastUpdate; no row, no change                                     *)
updateShipment(table, trackingNumber, id, updates) ==
  IF table[trackingNumber].id # id \/ id = 0 THEN table
  ELSE [table EXCEPT ![trackingNumber] =
          [@ EXCEPT !.status = updates.status,
                    !.scheduledDelivery = updates.scheduledDelivery,
                    !.fedexRawData = updates.fedexRawData,
                    !.childTrackingNumbers =
                       IF updates.childTrackingNumbers # <<>>
                         THEN updates.childTrackingNumbers ELSE @,
                    !.sinceLastUpdate = 0]]

(* the updates upsertShipment makes of a record for an existing row: the *)
(* keys that are neither null nor undefined                              *)
upsertUpdates(row, insertShipment) ==
  [status |-> insertShipment.status,
   scheduledDelivery |->
     IF insertShipment.scheduledDelivery # ""
       THEN insertShipment.scheduledDelivery ELSE row.scheduledDelivery,
   fedexRawData |->
     IF insertShipment.fedexRawData # <<>>
       THEN insertShipment.fedexRawData ELSE row.fedexRawData,
   childTrackingNumbers |-> insertShipment.childTrackingNumbers]

(* storage.createShipment(insertShipment) as row number id *)
createShipment(table, id, insertShipment) ==
  [table EXCEPT ![insertShipment.trackingNumber] =
     [id |-> id, status |-> insertShipment.status, sinceLastUpdate |-> 0,
      manuallyCompleted |-> 0, notScanned |-> 0,
      scheduledDelivery |-> insertShipment.scheduledDelivery,
      fedexRawData |-> insertShipment.fedexRawData,
      childTrackingNumbers |-> insertShipment.childTrackingNumbers]]

(* the sheet is edited: rows are added or removed *)
EditSheet(S) ==
  /\ S # sheet
  /\ sheet' = S
  /\ UNCHANGED <<db, rowsCreated, sync, refresh, sinceFetch, lastResponse>>
  /\ UNCHANGED <<service, apiKey, apiSecret, lastAnswer,
                 bulkImport, storageCalls, spared>>

(* POST /api/sync/google-sheets up to getAllShipments: the rows read *)
SyncStart ==
  /\ sync.pc = "idle"
  /\ sync' = [IdleSync EXCEPT !.pc = "getAll", !.sheetData = Rows(sheet),
                              !.rows = Rows(sheet)]
  /\ UNCHANGED <<db, rowsCreated, sheet, refresh, sinceFetch, lastResponse>>
  /\ UNCHANGED <<service, apiKey, apiSecret, lastAnswer,
                 bulkImport, storageCalls, spared>>

(* the sync request with the deletions and rows it has left: the next    *)
(* deletion, the next row, or the response; of its copy of the table it  *)
(* keeps the shipments of the rows it has left, the only ones it reads   *)
Continue(request) ==
  IF request.toDelete # <<>> THEN [request EXCEPT !.pc = "delete"]
  ELSE IF request.rows # <<>>
    THEN [request EXCEPT
            !.pc = "row", !.shipmentData = NoData, !.fetched = FALSE,
            !.existing = 0,
            !.dbShipments =
               [t \in TrackingNumbers |->
                  IF \E i \in 1..Len(request.rows) : request.rows[i] = t
                    THEN @[t] ELSE NoShipment]]
  ELSE IdleSync

(* SyncGetAll with a fault: every stored shipment is to be deleted *)
SyncGetAll_DeletesStored ==
  /\ sync.pc = "getAll"
  /\ sync' = Continue([sync EXCEPT
       !.dbShipments = db,
       !.toDelete = SelectSeq(ShipmentsOrder, LAMBDA t : Exists(db[t]))])
  /\ UNCHANGED <<db, rowsCreated, sheet, refresh, sinceFetch, lastResponse>>
  /\ UNCHANGED <<service, apiKey, apiSecret, lastAnswer,
                 bulkImport, storageCalls, spared>>

(* getAllShipments answers: shipments that are no longer in the sheet    *)
(* are to be deleted                                                     *)
SyncGetAll ==
  /\ sync.pc = "getAll"
  /\ LET inSheet == {sync.rows[i] : i \in 1..Len(sync.rows)}
     IN sync' = Continue([sync EXCEPT
          !.dbShipments = db,
          !.toDelete = SelectSeq(ShipmentsOrder,
                        LAMBDA t : Exists(db[t]) /\ t \notin inSheet)])
  /\ UNCHANGED <<db, rowsCreated, sheet, refresh, sinceFetch, lastResponse>>
  /\ UNCHANGED <<service, apiKey, apiSecret, lastAnswer,
                 bulkImport, storageCalls, spared>>

(* storage.deleteShipment of the next shipment to delete *)
SyncDelete ==
  /\ sync.pc = "delete"
  /\ db' = [db EXCEPT ![Head(sync.toDelete)] = NoShipment]
  /\ sync' = Continue([sync EXCEPT !.toDelete = Tail(@)])
  /\ UNCHANGED <<rowsCreated, sheet, refresh, sinceFetch, lastResponse>>
  /\ UNCHANGED <<service, apiKey, apiSecret, lastAnswer,
                 bulkImport, storageCalls, spared>>

(* the record the sync merges for a row from the sheet (no other column  *)
(* filled, no row in ALL INBOUND), FedEx and the shipment it knows       *)
shipmentDataOf(trackingNumber, existingShipment, fedexData) ==
  [trackingNumber |-> trackingNumber,
   status |-> Or(fedexData.status, Or(existingShipment.status, "Pending")),
   scheduledDelivery |-> fedexData.estimatedDelivery,
   fedexRawData |->
     IF ~fedexData.isNull THEN stringify(fedexData)
     ELSE existingShipment.fedexRawData,
   childTrackingNumbers |-> fedexData.childTrackingNumbers]

(* the top of the loop over the rows: ask FedEx, or take the cached      *)
(* FedEx data and go on to upsertShipment                                *)
SyncRow ==
  /\ sync.pc = "row"
  /\ LET trackingNumber == Head(sync.rows)
         existingShipment == sync.dbShipments[trackingNumber]
         cached == IF existingShipment.fedexRawData # <<>>
                     THEN parse(existingShipment.fedexRawData) ELSE NullInfo
     IN IF shouldRefreshShipment(existingShipment)
          THEN sync' = [sync EXCEPT !.pc = "fedex"]
          ELSE sync' = [sync EXCEPT
                 !.pc = "upsertGet",
                 !.shipmentData =
                    shipmentDataOf(trackingNumber, existingShipment, cached)]
  /\ UNCHANGED <<db, rowsCreated, sheet, refresh, sinceFetch, lastResponse>>
  /\ UNCHANGED <<service, apiKey, apiSecret, lastAnswer,
                 bulkImport, storageCalls, spared>>

(* getTrackingInfo is settled: go on to upsertShipment with the answer,  *)
(* or, when it is rejected, log the failure and take the next row        *)
SyncFedEx(outcome, answer) ==
  /\ sync.pc = "fedex"
  /\ LET trackingNumber == Head(sync.rows)
         existingShipment == sync.dbShipments[trackingNumber]
     IN IF settlement(outcome).kind = "resolve"
          THEN sync' = [sync EXCEPT
                 !.pc = "upsertGet",
                 !.fetched = TRUE,
                 !.shipmentData =
                    shipmentDataOf(trackingNumber, existingShipment,
                                   fedexDataOf(outcome, answer))]
          ELSE sync' = Continue([sync EXCEPT !.rows = Tail(@)])
  /\ UNCHANGED <<db, rowsCreated, sheet, refresh, sinceFetch, lastResponse>>
  /\ UNCHANGED <<service, apiKey, apiSecret, lastAnswer,
                 bulkImport, storageCalls, spared>>

(* upsertShipment: getShipmentByTracking answers *)
SyncUpsertGet ==
  /\ sync.pc = "upsertGet"
  /\ sync' = [sync EXCEPT
       !.pc = "upsertWrite",
       !.existing = db[sync.shipmentData.trackingNumber].id]
  /\ UNCHANGED <<db, rowsCreated, sheet, refresh, sinceFetch, lastResponse>>
  /\ UNCHANGED <<service, apiKey, apiSecret, lastAnswer,
                 bulkImport, storageCalls, spared>>

(* upsertShipment: the update of the row found, or the insert of a new   *)
(* one; then the sync log and the next row                               *)
SyncUpsertWrite ==
  /\ sync.pc = "upsertWrite"
  /\ LET trackingNumber == sync.shipmentData.trackingNumber
     IN /\ IF sync.existing # 0
             THEN /\ db' = updateShipment(db, trackingNumber, sync.existing,
                            upsertUpdates(db[trackingNumber],
                                          sync.shipmentData))
                  /\ UNCHANGED rowsCreated
             ELSE /\ rowsCreated < MaxRows
                  /\ db' = createShipment(db, rowsCreated + 1,
                                          sync.shipmentData)
                  /\ rowsCreated' = rowsCreated + 1
        /\ sinceFetch' =
             IF sync.fetched /\ db'[trackingNumber] # db[trackingNumber]
               THEN [sinceFetch EXCEPT ![trackingNumber] = 0]
               ELSE sinceFetch
  /\ sync' = Continue([sync EXCEPT !.rows = Tail(@)])
  /\ UNCHANGED <<sheet, refresh, lastResponse>>
  /\ UNCHANGED <<service, apiKey, apiSecret, lastAnswer,
                 bulkImport, storageCalls, spared>>

(* noData with a fault: the answer of FedEx is never taken as empty *)
noData_Never(fedexData) == FALSE

(* !fedexData *)
noData(fedexData) == fedexData.isNull

(* the answer of the refresh route *)
Response(status, message, shipment, cause) ==
  [status |-> status, message |-> message,
   shipment |-> [shipment EXCEPT !.sinceLastUpdate = 0], cause |-> cause]

(* POST /api/shipments/:trackingNumber/refresh up to its first await *)
RefreshStart(trackingNumber) ==
  /\ refresh.pc = "idle"
  /\ refresh' = [IdleRefresh EXCEPT !.pc = "get",
                                    !.trackingNumber = trackingNumber]
  /\ UNCHANGED <<db, rowsCreated, sheet, sync, sinceFetch, lastResponse>>
  /\ UNCHANGED <<service, apiKey, apiSecret, lastAnswer,
                 bulkImport, storageCalls, spared>>

(* getShipmentByTracking answers: 404, the stored data when FedEx is not *)
(* configured, or a call of getTrackingInfo                              *)
RefreshGet ==
  /\ refresh.pc = "get"
  /\ LET shipment == db[refresh.trackingNumber]
     IN IF ~Exists(shipment)
          THEN /\ lastResponse' =
                    Response(404, "Shipment not found", NoShipment, "")
               /\ refresh' = IdleRefresh
          ELSE IF ~isConfigured
            THEN /\ lastResponse' =
                      Response(200,
                               "FedEx API not configured - using cached data",
                               shipment, "")
                 /\ refresh' = IdleRefresh
            ELSE /\ refresh' = [refresh EXCEPT
                      !.pc = "fedex",
                      !.shipment = [shipment EXCEPT !.sinceLastUpdate = 0]]
                 /\ UNCHANGED lastResponse
  /\ UNCHANGED <<db, rowsCreated, sheet, sync, sinceFetch>>
  /\ UNCHANGED <<service, apiKey, apiSecret, lastAnswer,
                 bulkImport, storageCalls, spared>>

(* getTrackingInfo is settled: without data the stored shipment is the   *)
(* answer; with data the row is updated; a rejection goes to the catch   *)
RefreshFedEx(outcome, answer) ==
  /\ refresh.pc = "fedex"
  /\ LET fedexData == fedexDataOf(outcome, answer)
     IN IF settlement(outcome).kind = "reject"
          THEN /\ refresh' = [refresh EXCEPT !.pc = "catchGet",
                                             !.cause = outcome]
               /\ UNCHANGED <<lastResponse, sinceFetch>>
          ELSE IF noData(fedexData)
            THEN /\ lastResponse' =
                      Response(200, "No new tracking data available",
                               refresh.shipment, outcome)
                 /\ refresh' = IdleRefresh
                 /\ sinceFetch' =
                      [sinceFetch EXCEPT ![refresh.trackingNumber] = 0]
            ELSE /\ refresh' = [refresh EXCEPT !.pc = "update",
                                               !.fedexData = fedexData,
                                               !.cause = outcome]
                 /\ UNCHANGED <<lastResponse, sinceFetch>>
  /\ UNCHANGED <<db, rowsCreated, sheet, sync>>
  /\ UNCHANGED <<service, apiKey, apiSecret, lastAnswer,
                 bulkImport, storageCalls, spared>>

(* the updates the refresh route makes of the answer of FedEx *)
refreshUpdates(shipment, fedexData) ==
  [status |-> Or(fedexData.status, shipment.status),
   scheduledDelivery |->
     Or(fedexData.estimatedDelivery, shipment.scheduledDelivery),
   fedexRawData |-> stringify(fedexData),
   childTrackingNumbers |-> fedexData.childTrackingNumbers]

(* storage.updateShipment(shipment.id, updates) *)
RefreshUpdate ==
  /\ refresh.pc = "update"
  /\ db' = updateShipment(db, refresh.trackingNumber, refresh.shipment.id,
                          refreshUpdates(refresh.shipment, refresh.fedexData))
  /\ sinceFetch' = [sinceFetch EXCEPT ![refresh.trackingNumber] = 0]
  /\ refresh' = [refresh EXCEPT !.pc = "reget"]
  /\ UNCHANGED <<rowsCreated, sheet, sync, lastResponse>>
  /\ UNCHANGED <<service, apiKey, apiSecret, lastAnswer,
                 bulkImport, storageCalls, spared>>

(* the row is read again and sent, after the update or in the catch *)
RefreshRespond ==
  /\ refresh.pc \in {"reget", "catchGet"}
  /\ lastResponse' =
       Response(200,
                IF refresh.pc = "reget"
                  THEN "Tracking information refreshed from FedEx"
                  ELSE "Failed to refresh - using cached data",
                db[refresh.trackingNumber], refresh.cause)
  /\ refresh' = IdleRefresh
  /\ UNCHANGED <<db, rowsCreated, sheet, sync, sinceFetch>>
  /\ UNCHANGED <<service, apiKey, apiSecret, lastAnswer,
                 bulkImport, storageCalls, spared>>

(* POST /api/shipments/mark-completed for one tracking number *)
markShipmentsAsCompleted(trackingNumber) ==
  /\ Exists(db[trackingNumber])
  /\ db' = [db EXCEPT ![trackingNumber].manuallyCompleted = 1,
                      ![trackingNumber].notScanned = 0]
  /\ db' # db
  /\ UNCHANGED <<rowsCreated, sheet, sync, refresh, sinceFetch,
                 lastResponse>>
  /\ UNCHANGED <<service, apiKey, apiSecret, lastAnswer,
                 bulkImport, storageCalls, spared>>

(* POST /api/shipments/mark-not-scanned for one tracking number *)
markShipmentsAsNotScanned(trackingNumber) ==
  /\ Exists(db[trackingNumber])
  /\ db[trackingNumber].notScanned = 0
  /\ db' = [db EXCEPT ![trackingNumber].notScanned = 1]
  /\ UNCHANGED <<rowsCreated, sheet, sync, refresh, sinceFetch,
                 lastResponse>>
  /\ UNCHANGED <<service, apiKey, apiSecret, lastAnswer,
                 bulkImport, storageCalls, spared>>

(* TickMs pass *)
AgeRows(table) ==
  [t \in TrackingNumbers |->
     IF Exists(table[t])
       THEN [table[t] EXCEPT !.sinceLastUpdate = Older(@, TickMs)]
       ELSE table[t]]

Pass ==
  /\ db' = AgeRows(db)
  /\ sync' = [sync EXCEPT !.dbShipments = AgeRows(@)]
  /\ sinceFetch' = [t \in TrackingNumbers |-> Older(sinceFetch[t], TickMs)]
  /\ <<db', sync', sinceFetch'>> # <<db, sync, sinceFetch>>
  /\ UNCHANGED <<rowsCreated, sheet, refresh, lastResponse>>
  /\ UNCHANGED <<service, apiKey, apiSecret, lastAnswer,
                 bulkImport, storageCalls, spared>>

NextSync ==
  \/ \E S \in SUBSET SheetNumbers : EditSheet(S)
  \/ SyncStart
  \/ SyncGetAll
  \/ SyncDelete
  \/ SyncRow
  \/ \E o \in Outcomes : \E a \in FedExAnswers : SyncFedEx(o, a)
  \/ SyncUpsertGet
  \/ SyncUpsertWrite
  \/ \E t \in TrackingNumbers : markShipmentsAsCompleted(t)
  \/ Pass

(* the sync route, requests one after the other *)
SpecSync == Init /\ [][NextSync]_vars

(* shipments as a sync stores them *)
StoredShipments ==
  {createShipment([t \in TrackingNumbers |-> NoShipment], 1,
                  shipmentDataOf(SheetOrder[1], NoShipment, a))
   : a \in FedExAnswers \cup {NullInfo}}

InitRefresh ==
  /\ Constructed
  /\ NoCallers
  /\ NoImport
  /\ apiKey = "key"
  /\ apiSecret \in {"", "secret"}
  /\ db \in StoredShipments
  /\ rowsCreated = 1
  /\ sheet = SheetNumbers
  /\ sync = IdleSync
  /\ refresh = IdleRefresh
  /\ sinceFetch = [t \in TrackingNumbers |-> 0]
  /\ lastResponse = NoResponse

NextRefresh ==
  \/ \E t \in TrackingNumbers : RefreshStart(t)
  \/ RefreshGet
  \/ \E o \in Outcomes : \E a \in FedExAnswers : RefreshFedEx(o, a)
  \/ RefreshUpdate
  \/ RefreshRespond

(* the refresh route over a table that a sync has filled *)
SpecRefresh == InitRefresh /\ [][NextRefresh]_vars

(***************************************************************************)
(* The bulk-import script (test-bulk-import.js): pasted tab-separated text *)
(* is parsed into rows, the rows are grouped by master tracking number,    *)
(* and one shipment record is made per group and per row without a master. *)
(* Text is a string; an optional value is <<>> (undefined) or <<value>>.   *)
(***************************************************************************)
MaxLines == 4

undefined == <<>>
NaN == <<>>
Tab == "\t"
Whitespace == {" ", "\t", "\n", "\r"}
Lower == "abcdefghijklmnopqrstuvwxyz"
Upper == "ABCDEFGHIJKLMNOPQRSTUVWXYZ"
DecimalDigits == "0123456789"

charAt(s, i) == SubSeq(s, i, i)

(* s.includes(sub) *)
includes(s, sub) ==
  \E i \in 1..(Len(s) - Len(sub) + 1) : SubSeq(s, i, i + Len(sub) - 1) = sub

(* s.toUpperCase(): character by character *)
upperChar(c) ==
  IF \E i \in 1..Len(Lower) : charAt(Lower, i) = c
    THEN charAt(Upper, CHOOSE i \in 1..Len(Lower) : charAt(Lower, i) = c)
    ELSE c

RECURSIVE toUpperCase(_)
toUpperCase(s) ==
  IF Len(s) = 0 THEN ""
  ELSE IF Len(s) = 1 THEN upperChar(s)
  ELSE LET half == Len(s) \div 2
       IN toUpperCase(SubSeq(s, 1, half))
            \o toUpperCase(SubSeq(s, half + 1, Len(s)))

(* s.trim() *)
RECURSIVE trimStart(_)
trimStart(s) ==
  IF s # "" /\ charAt(s, 1) \in Whitespace THEN trimStart(Tail(s)) ELSE s

RECURSIVE trimEnd(_)
trimEnd(s) ==
  IF s # "" /\ charAt(s, Len(s)) \in Whitespace
    THEN trimEnd(SubSeq(s, 1, Len(s) - 1))
    ELSE s

trim(s) == trimEnd(trimStart(s))

(* s.split(sep), sep one character *)
RECURSIVE split(_, _)
split(s, sep) ==
  IF ~includes(s, sep) THEN <<s>>
  ELSE LET i == CHOOSE i \in 1..Len(s) :
                  /\ charAt(s, i) = sep
                  /\ \A j \in 1..(i - 1) : charAt(s, j) # sep
       IN <<SubSeq(s, 1, i - 1)>> \o split(SubSeq(s, i + 1, Len(s)), sep)

(* array.join(sep) *)
RECURSIVE join(_, _)
join(array, sep) ==
  IF array = <<>> THEN ""
  ELSE IF Len(array) = 1 THEN array[1]
  ELSE array[1] \o sep \o join(Tail(array), sep)

(* parseLine(line) *)
parseLine(line) ==
  IF includes(line, Tab)
    THEN LET parts == split(line, Tab)
         IN [i \in 1..Len(parts) |-> trim(parts[i])]
    ELSE <<>>

(* parts[i]?.trim() || default, i counted from 0 *)
partOr(parts, i, default) ==
  IF i < Len(parts) /\ trim(parts[i + 1]) # ""
    THEN trim(parts[i + 1])
    ELSE default

(* /^\d+$/.test(s) *)
digitsOnly(s) ==
  /\ Len(s) >= 1
  /\ \A i \in 1..Len(s) : charAt(s, i) \in Digits

(* parseInt(s): the digits at the start of s, after white space and a *)
(* sign; NaN when there is none                                        *)
RECURSIVE digitsValue(_, _)
digitsValue(s, acc) ==
  IF s # "" /\ charAt(s, 1) \in Digits
    THEN LET d == CHOOSE d \in 0..9 : charAt(DecimalDigits, d + 1) = charAt(s, 1)
         IN digitsValue(Tail(s), 10 * acc + d)
    ELSE acc

parseInt(s) ==
  LET t == trimStart(s)
      signed == t # "" /\ charAt(t, 1) \in {"+", "-"}
      body == IF signed THEN Tail(t) ELSE t
      value == digitsValue(body, 0)
  IN IF body = "" \/ charAt(body, 1) \notin Digits THEN NaN
     ELSE IF signed /\ charAt(t, 1) = "-" THEN <<0 - value>>
     ELSE <<value>>

(* the header test of the first line *)
isHeader(line, index) ==
  LET upperLine == toUpperCase(line)
  IN /\ index = 0
     /\ \/ includes(upperLine, "TRACKING NUMBER")
        \/ includes(upperLine, "TRACKING_NUMBER")
        \/ includes(upperLine, "MASTER TRACKING")
        \/ includes(upperLine, "NO. OF PACKAGES")
        \/ includes(upperLine, "SHIPPER NAME")

(* the lines that push no row *)
skips(line, index) ==
  LET trackingNumber == partOr(parseLine(line), 0, "")
  IN \/ trim(line) = ""
     \/ isHeader(line, index)
     \/ trackingNumber = ""
     \/ includes(toUpperCase(trackingNumber), "TRACKING")
     \/ includes(toUpperCase(trackingNumber), "NUMBER")
     \/ ~digitsOnly(trackingNumber)

(* the row pushed for a line; index, the position of the line, is kept *)
(* to tell which line a row came from                                  *)
rawRow(line, index) ==
  LET parts == parseLine(line)
      master == partOr(parts, 7, "")
  IN [trackingNumber |-> partOr(parts, 0, ""),
      status |-> partOr(parts, 1, "Pending"),
      masterTrackingNumber |-> IF master = "" THEN undefined ELSE <<master>>,
      packageCount |-> parseInt(partOr(parts, 8, "1")),
      index |-> index]

(* a Map: its entries in insertion order *)
has(map, key) == \E i \in 1..Len(map) : map[i].key = key

get_Fresh(map, key) == <<>>
get(map, key) == map[CHOOSE i \in 1..Len(map) : map[i].key = key].value

set(map, key, value) ==
  IF has(map, key)
    THEN [i \in 1..Len(map) |->
            IF map[i].key = key THEN [key |-> key, value |-> value]
                                ELSE map[i]]
    ELSE Append(map, [key |-> key, value |-> value])

(* if (master): undefined and "" are falsy *)
truthy(master) == master # undefined /\ master[1] # ""

(* the shipment record of a group, and of a row without a master *)
groupShipment(masterTrackingNumber, rows) ==
  LET found == {i \in 1..Len(rows) : rows[i].trackingNumber = masterTrackingNumber}
      masterRow == IF found # {}
                     THEN rows[CHOOSE i \in found : \A j \in found : i <= j]
                     ELSE rows[1]
  IN [trackingNumber |-> masterTrackingNumber,
      status |-> masterRow.status,
      masterTrackingNumber |-> <<masterTrackingNumber>>,
      packageCount |-> masterRow.packageCount,
      childTrackingNumbers |->
        <<[i \in 1..Len(rows) |-> rows[i].trackingNumber]>>]

standaloneShipment(row) ==
  [trackingNumber |-> row.trackingNumber,
   status |-> row.status,
   masterTrackingNumber |-> undefined,
   packageCount |-> row.packageCount,
   childTrackingNumbers |-> undefined]

(* a loop over nothing is passed at once *)
enter(k, rows, groups, standalone) ==
  IF k <= 2 /\ rows # <<>> THEN At("rawRows", 0)
  ELSE IF k <= 3 /\ groups # <<>> THEN At("groupedByMaster", 0)
  ELSE IF k <= 4 /\ standalone # <<>> THEN At("standaloneShipments", 0)
  ELSE Done

(* lines.forEach((line, index) => ...): one line *)
ParseLine ==
  /\ script.pc = "lines"
  /\ LET index == script.index
         line == lines[index + 1]
     IN /\ rawRows' = IF skips(line, index)
                        THEN rawRows
                        ELSE Append(rawRows, rawRow(line, index))
        /\ script' = IF index + 1 < Len(lines)
                       THEN At("lines", index + 1)
                       ELSE enter(2, rawRows', <<>>, <<>>)
  /\ UNCHANGED <<lines, groupedByMaster, standaloneShipments, parsed>>
  /\ UNCHANGED <<service, apiKey, apiSecret, lastAnswer, database,
                 storageCalls, spared>>

(* rawRows.forEach(row => ...): one row *)
GroupRow ==
  /\ script.pc = "rawRows"
  /\ LET row == rawRows[script.index + 1]
         master == row.masterTrackingNumber
     IN /\ IF truthy(master)
             THEN LET created == IF ~has(groupedByMaster, master[1])
                                   THEN set(groupedByMaster, master[1], <<>>)
                                   ELSE groupedByMaster
                  IN /\ groupedByMaster' =
                          set(created, master[1],
                              Append(get(created, master[1]), row))
                     /\ UNCHANGED standaloneShipments
             ELSE /\ standaloneShipments' = Append(standaloneShipments, row)
                  /\ UNCHANGED groupedByMaster
        /\ script' = IF script.index + 1 < Len(rawRows)
                       THEN At("rawRows", script.index + 1)
                       ELSE enter(3, rawRows, groupedByMaster',
                                  standaloneShipments')
  /\ UNCHANGED <<lines, rawRows, parsed>>
  /\ UNCHANGED <<service, apiKey, apiSecret, lastAnswer, database,
                 storageCalls, spared>>

(* groupedByMaster.forEach((rows, masterTrackingNumber) => ...): one group *)
EmitGroup ==
  /\ script.pc = "groupedByMaster"
  /\ LET entry == groupedByMaster[script.index + 1]
     IN parsed' = Append(parsed, groupShipment(entry.key, entry.value))
  /\ script' = IF script.index + 1 < Len(groupedByMaster)
                 THEN At("groupedByMaster", script.index + 1)
                 ELSE enter(4, rawRows, groupedByMaster, standaloneShipments)
  /\ UNCHANGED <<lines, rawRows, groupedByMaster, standaloneShipments>>
  /\ UNCHANGED <<service, apiKey, apiSecret, lastAnswer, database,
                 storageCalls, spared>>

(* standaloneShipments.forEach(row => ...): one row *)
EmitStandalone ==
  /\ script.pc = "standaloneShipments"
  /\ parsed' = Append(parsed,
                      standaloneShipment(standaloneShipments[script.index + 1]))
  /\ script' = IF script.index + 1 < Len(standaloneShipments)
                 THEN At("standaloneShipments", script.index + 1)
                 ELSE Done
  /\ UNCHANGED <<lines, rawRows, groupedByMaster, standaloneShipments>>
  /\ UNCHANGED <<service, apiKey, apiSecret, lastAnswer, database,
                 storageCalls, spared>>

(* the texts pasted: up to MaxLines lines, each one of LineTexts *)
Header ==
  join(<<"TRACKING NUMBER", "STATUS", "SCHEDULED DELIVERY DATE",
         "SHIPPER NAME", "SHIPPER COMPANY", "RECIPIENT CONTACT NAME",
         "RECIPIENT COMPANY", "MASTER TRACKING NUMBER", "NO. OF PACKAGES",
         "PACKAGE TYPE", "PKG WT (LBS)", "TOTAL WT (LBS)", "DIRECTION",
         "SERVICE TYPE">>, Tab)

Row(trackingNumber, status, shipper, master) ==
  join(<<trackingNumber, status, "12/4/25", shipper, "CTDI", "BRANDON IN",
         "SCAL", master, "5">>, Tab)

LineTexts ==
  {Header,
   Row("1", "On the way", "CTDI", ""),
   Row("1", "On the way", "CTDI", "2"),
   Row("2", "", "CTDI", " 2"),
   Row("1", "On the way", "Shipper name", ""),
   Row("x1", "On the way", "CTDI", "2"),
   "1"}

Texts ==
  {join(ls, "\n") : ls \in UNION {[1..n -> LineTexts] : n \in 0..MaxLines}}

InitImport ==
  /\ Constructed
  /\ NoCallers
  /\ apiKey = "key"
  /\ apiSecret = "secret"
  /\ EmptyDatabase
  /\ \E testData \in Texts : lines = split(trim(testData), "\n")
  /\ rawRows = <<>>
  /\ groupedByMaster = <<>>
  /\ standaloneShipments = <<>>
  /\ parsed = <<>>
  /\ script = At("lines", 0)

NextImport ==
  \/ ParseLine
  \/ GroupRow
  \/ EmitGroup
  \/ EmitStandalone

SpecImport == InitImport /\ [][NextImport]_vars

(***************************************************************************)
(* Calls of the storage methods that read a row and then write it          *)
(* (server/storage.ts), made by requests that run side by side: the        *)
(* routes await each of the two steps, so the steps of two calls           *)
(* interleave.  tracking_number_idx lets the table hold one row per        *)
(* tracking number.                                                        *)
(***************************************************************************)
Call(c) == storageCalls[c]
Become(c, call) == storageCalls' = [storageCalls EXCEPT ![c] = call]

(* the place of the next write among the writes made *)
NextSeq == 1 + Cardinality({c \in Callers : Call(c).seq > 0})

(* the records POST /api/shipments is sent *)
InsertShipments ==
  {[trackingNumber |-> t, status |-> "Pending",
    scheduledDelivery |-> "12/4/25", fedexRawData |-> <<>>,
    childTrackingNumbers |-> <<>>] : t \in TrackingNumbers}
  \cup
  {[trackingNumber |-> t, status |-> "Delivered",
    scheduledDelivery |-> "", fedexRawData |-> <<>>,
    childTrackingNumbers |-> <<>>] : t \in TrackingNumbers}

(* POST /api/shipments: upsertShipment(insertShipment) up to its read *)
UpsertCall(c, insertShipment) ==
  /\ Call(c).pc = "idle"
  /\ Become(c, [IdleCall EXCEPT !.op = "upsertShipment", !.pc = "get",
                                !.trackingNumber = insertShipment.trackingNumber,
                                !.insertShipment = insertShipment])
  /\ UNCHANGED <<service, apiKey, apiSecret, lastAnswer, database, bulkImport, spared>>

(* getShipmentByTracking answers *)
UpsertGet(c) ==
  /\ Call(c).op = "upsertShipment"
  /\ Call(c).pc = "get"
  /\ Become(c, [Call(c) EXCEPT !.pc = "write",
                               !.existing = db[Call(c).trackingNumber]])
  /\ UNCHANGED <<service, apiKey, apiSecret, lastAnswer, database, bulkImport, spared>>

(* the insert of a row whose tracking number the table already holds *)
(* is refused by tracking_number_idx                                 *)
uniqueViolation(table, insertShipment) ==
  Exists(table[insertShipment.trackingNumber])

(* updateShipment of the row that was read, or createShipment *)
UpsertWrite(c) ==
  /\ Call(c).op = "upsertShipment"
  /\ Call(c).pc = "write"
  /\ LET call == Call(c)
         t == call.trackingNumber
     IN IF Exists(call.existing)
          THEN /\ db' = updateShipment(db, t, call.existing.id,
                                       upsertUpdates(db[t], call.insertShipment))
               /\ Become(c, [call EXCEPT !.pc = "done", !.result = "ok",
                                         !.seq = NextSeq])
               /\ UNCHANGED rowsCreated
          ELSE IF uniqueViolation(db, call.insertShipment)
            THEN /\ Become(c, [call EXCEPT !.pc = "done", !.result = "error",
                                           !.seq = NextSeq])
                 /\ UNCHANGED <<db, rowsCreated>>
            ELSE /\ db' = createShipment(db, rowsCreated + 1,
                                         call.insertShipment)
                 /\ rowsCreated' = rowsCreated + 1
                 /\ Become(c, [call EXCEPT !.pc = "done", !.result = "ok",
                                           !.seq = NextSeq])
  /\ UNCHANGED <<sheet, sync, refresh, sinceFetch, lastResponse>>
  /\ UNCHANGED <<service, apiKey, apiSecret, lastAnswer, bulkImport, spared>>

(* the arrays PATCH .../child-tracking-numbers is sent *)
ChildBodies ==
  {<<"881">>, <<"882">>, <<"882", "881">>, <<"882", "882">>, <<" 881", "">>}

(* childTrackingNumbers.map(tn => String(tn).trim()).filter(tn => tn.length > 0) *)
validTrackingNumbers(body) ==
  SelectSeq([i \in 1..Len(body) |-> trim(body[i])], LAMBDA tn : Len(tn) > 0)

(* [...new Set([...existingChildren, ...childTrackingNumbers])]: each *)
(* value once, at the place where it comes first                      *)
RECURSIVE unique(_)
unique(array) ==
  IF array = <<>> THEN <<>>
  ELSE LET front == unique(SubSeq(array, 1, Len(array) - 1))
           last == array[Len(array)]
       IN IF \E i \in 1..Len(front) : front[i] = last
            THEN front ELSE Append(front, last)

mergedChildren(existingChildren, childTrackingNumbers) ==
  unique(existingChildren \o childTrackingNumbers)

(* PATCH /api/shipments/:trackingNumber/child-tracking-numbers up to *)
(* its read of the shipment                                          *)
ChildrenCall(c, trackingNumber, body) ==
  /\ Call(c).pc = "idle"
  /\ Become(c, [IdleCall EXCEPT !.op = "updateChildTrackingNumbers",
                                !.pc = "find",
                                !.trackingNumber = trackingNumber,
                                !.childTrackingNumbers =
                                   validTrackingNumbers(body)])
  /\ UNCHANGED <<service, apiKey, apiSecret, lastAnswer, database, bulkImport, spared>>

(* the route's getShipmentByTracking answers: 404, or on to the storage *)
(* method                                                               *)
ChildrenFind(c) ==
  /\ Call(c).op = "updateChildTrackingNumbers"
  /\ Call(c).pc = "find"
  /\ IF Exists(db[Call(c).trackingNumber])
       THEN Become(c, [Call(c) EXCEPT !.pc = "get"])
       ELSE Become(c, [Call(c) EXCEPT !.pc = "done", !.result = "404"])
  /\ UNCHANGED <<service, apiKey, apiSecret, lastAnswer, database, bulkImport, spared>>

(* updateChildTrackingNumbers: getShipmentByTracking answers; no *)
(* shipment is an error                                          *)
ChildrenGet(c) ==
  /\ Call(c).op = "updateChildTrackingNumbers"
  /\ Call(c).pc = "get"
  /\ LET shipment == db[Call(c).trackingNumber]
     IN IF Exists(shipment)
          THEN Become(c, [Call(c) EXCEPT !.pc = "write",
                                         !.existing = shipment])
          ELSE Become(c, [Call(c) EXCEPT !.pc = "done", !.result = "error"])
  /\ UNCHANGED <<service, apiKey, apiSecret, lastAnswer, database, bulkImport, spared>>

(* updateChildTrackingNumbers: the update of the row with that tracking *)
(* number, if there is one                                              *)
ChildrenWrite(c) ==
  /\ Call(c).op = "updateChildTrackingNumbers"
  /\ Call(c).pc = "write"
  /\ LET call == Call(c)
         t == call.trackingNumber
     IN /\ db' = IF Exists(db[t])
                   THEN [db EXCEPT
                           ![t].childTrackingNumbers =
                              mergedChildren(call.existing.childTrackingNumbers,
                                             call.childTrackingNumbers),
                           ![t].sinceLastUpdate = 0]
                   ELSE db
        /\ Become(c, [call EXCEPT !.pc = "done", !.result = "ok",
                                  !.seq = NextSeq])
  /\ UNCHANGED <<rowsCreated, sheet, sync, refresh, sinceFetch, lastResponse>>
  /\ UNCHANGED <<service, apiKey, apiSecret, lastAnswer, bulkImport, spared>>

(* the table the callers find: empty, or one shipment with or without *)
(* child tracking numbers                                              *)
StoredForCalls ==
  {[t \in TrackingNumbers |-> NoShipment]}
  \cup
  {createShipment([t \in TrackingNumbers |-> NoShipment], 1,
                  [i EXCEPT !.childTrackingNumbers = children])
   : i \in {x \in InsertShipments : x.trackingNumber = SheetOrder[1]},
     children \in {<<>>, <<"881">>}}

InitStorage ==
  /\ Constructed
  /\ NoCallers
  /\ NoImport
  /\ apiKey = "key"
  /\ apiSecret = "secret"
  /\ db \in StoredForCalls
  /\ rowsCreated = IF Exists(db[SheetOrder[1]]) THEN 1 ELSE 0
  /\ sheet = SheetNumbers
  /\ sync = IdleSync
  /\ refresh = IdleRefresh
  /\ sinceFetch = [t \in TrackingNumbers |-> MaxAge]
  /\ lastResponse = NoResponse

NextStorage ==
  \/ \E c \in Callers : \E i \in InsertShipments : UpsertCall(c, i)
  \/ \E c \in Callers : UpsertGet(c)
  \/ \E c \in Callers : UpsertWrite(c)
  \/ \E c \in Callers : \E t \in TrackingNumbers : \E b \in ChildBodies :
       ChildrenCall(c, t, b)
  \/ \E c \in Callers : ChildrenFind(c)
  \/ \E c \in Callers : ChildrenGet(c)
  \/ \E c \in Callers : ChildrenWrite(c)

(* upserts and child-number updates by callers side by side *)
SpecStorage == InitStorage /\ [][NextStorage]_vars

(***************************************************************************)
(* The sync and the refresh of a shipment side by side, over a table that  *)
(* earlier requests have filled: the shipment of the sheet as a sync       *)
(* stored it, with or without child tracking numbers of a bulk import,     *)
(* fresh or old, and possibly a shipment that POST /api/shipments stored   *)
(* and that the sheet does not list.                                       *)
(***************************************************************************)
ListedRows ==
  UNION {{[row EXCEPT !.childTrackingNumbers = children,
                      !.sinceLastUpdate = age]
          : children \in {row.childTrackingNumbers, <<"881">>},
            age \in {0, MaxAge}}
         : row \in {s[SheetOrder[1]] : s \in StoredShipments}}

UnlistedRows ==
  {NoShipment,
   createShipment([t \in TrackingNumbers |-> NoShipment], 2,
                  CHOOSE i \in InsertShipments :
                    i.trackingNumber = Unlisted /\ i.status = "Pending")
     [Unlisted]}

InitRoutes ==
  /\ Constructed
  /\ NoCallers
  /\ NoImport
  /\ apiKey = "key"
  /\ apiSecret = "secret"
  /\ \E listed \in ListedRows : \E unlisted \in UnlistedRows :
       db = [t \in TrackingNumbers |->
               IF t = Unlisted THEN unlisted ELSE listed]
  /\ rowsCreated = Cardinality({t \in TrackingNumbers : Exists(db[t])})
  /\ sheet = SheetNumbers
  /\ sync = IdleSync
  /\ refresh = IdleRefresh
  /\ sinceFetch = [t \in TrackingNumbers |-> 0]
  /\ lastResponse = NoResponse

(* what FedEx reports while the two routes run: nothing, a shipment on its *)
(* way, one with child tracking numbers, or an error                      *)
RouteOutcomes == {"results", "empty", "500"}
RouteAnswers ==
  {a \in FedExAnswers : a.status \in {"in_transit", "out_for_delivery"}}

NextRoutes ==
  \/ SyncStart
  \/ SyncGetAll
  \/ SyncDelete
  \/ SyncRow
  \/ \E o \in RouteOutcomes : \E a \in RouteAnswers : SyncFedEx(o, a)
  \/ SyncUpsertGet
  \/ SyncUpsertWrite
  \/ \E t \in TrackingNumbers : RefreshStart(t)
  \/ RefreshGet
  \/ \E o \in RouteOutcomes : \E a \in RouteAnswers : RefreshFedEx(o, a)
  \/ RefreshUpdate
  \/ RefreshRespond

(* the sync and refresh routes side by side *)
SpecRoutes == InitRoutes /\ [][NextRoutes]_vars

NextCleanup ==
  \/ SyncStart
  \/ SyncGetAll
  \/ SyncDelete
  \/ SyncRow
  \/ \E o \in RouteOutcomes : \E a \in RouteAnswers : SyncFedEx(o, a)
  \/ SyncUpsertGet
  \/ SyncUpsertWrite
  \/ \E t \in TrackingNumbers : markShipmentsAsCompleted(t)
  \/ \E t \in TrackingNumbers : markShipmentsAsNotScanned(t)

(* the sync route while shipments are marked, over a filled table *)
SpecCleanup == InitRoutes /\ [][NextCleanup]_vars

(***************************************************************************)
(* Properties                                                              *)
(***************************************************************************)
HttpInFlight == {w \in workers : w.pc \in {"tokenCall", "trackCall"}}
TokenInFlight == {w \in workers : w.pc = "tokenCall"}

(* C1: at most one outbound FedEx HTTP call (token request or tracking   *)
(* lookup) is in flight at any instant, and never two token requests     *)
C1_OneCallInFlight ==
  /\ Cardinality(HttpInFlight) <= 1
  /\ Cardinality(TokenInFlight) <= 1

(* a call is in flight while two more callers wait in the queue *)
C1_Witness ==
  /\ HttpInFlight # {}
  /\ Len(requestQueue) >= 2

(* C2: at most one processQueue loop runs, and isProcessingQueue is true *)
(* exactly when one runs                                                 *)
C2_SingleWorker ==
  /\ Cardinality(workers) <= 1
  /\ isProcessingQueue <=> workers # {}

(* getTrackingInfo was called while the worker sleeps in backoff *)
C2_Witness ==
  /\ isProcessingQueue
  /\ \E w \in workers : w.pc = "backoff"
  /\ requestQueue # <<>>

(* C3: consecutive tracking calls start at least minRequestInterval      *)
(* apart, also when a token refresh falls between rateLimit() and the    *)
(* tracking call                                                         *)
C3_MinSpacing == lastGap >= minRequestInterval

(* C4: a request that was never re-enqueued is settled after every       *)
(* request submitted before it that is settled at all, re-enqueued or    *)
(* not: nothing submitted after it is settled ahead of it                *)
C4_FifoSettle ==
  \A i, j \in 1..Len(settleOrder) :
    (i < j /\ settleOrder[j].retryCount = 0)
      => settleOrder[i].id < settleOrder[j].id

(* a re-enqueued request was settled after one submitted behind it *)
C4_Witness ==
  \E i, j \in 1..Len(settleOrder) :
    /\ i < j
    /\ settleOrder[i].id > settleOrder[j].id
    /\ settleOrder[j].retryCount > 0
    /\ settleOrder[i].retryCount = 0

(* the requests the queue and the workers hold *)
Queued == {requestQueue[i] : i \in 1..Len(requestQueue)}
Held == {w.request : w \in workers}
Accepted == 1..(nextId - 1)

(* C5 as claimed: after maxRetries rate-limit failures the request is    *)
(* rejected, and upstream is never called once more for it               *)
C5_NoFourthCall == \A id \in Ids : trackCalls[id] <= maxRetries

(* C5 amended: a request is rejected with the retries-exhausted error    *)
(* when its first attempt and its maxRetries retries have all failed     *)
(* with a rate-limit error, that is after the (maxRetries+1)-th failure, *)
(* and upstream is never called once more for it                         *)
C5_RetriesExhausted ==
  /\ \A id \in Ids :
       /\ trackCalls[id] <= maxRetries + 1
       /\ settled[id] = "RetriesExhausted" => trackCalls[id] = maxRetries + 1
  /\ \A r \in Queued : trackCalls[r.id] <= maxRetries
  /\ \A w \in workers : w.pc = "backoff" => trackCalls[w.request.id] <= maxRetries
  /\ lastSettle.value = "RetriesExhausted"
       => lastSettle.cause = "429" /\ lastSettle.retryCount = maxRetries

(* a request was rejected with the retries-exhausted error *)
C5_Witness == \E id \in Ids : settled[id] = "RetriesExhausted"

(* retryCount of request id as the queue q and the workers ws hold it,   *)
(* -1 when they do not hold it                                           *)
RetryCountIn(q, ws, id) ==
  LET held == {r \in {q[i] : i \in 1..Len(q)} \cup {w.request : w \in ws} :
                 r.id = id}
  IN IF held = {} THEN -1 ELSE (CHOOSE r \in held : TRUE).retryCount

BackingOff(ws, id) == \E w \in ws : w.pc = "backoff" /\ w.request.id = id

C6_Range == \A r \in Queued \cup Held : r.retryCount \in 0..maxRetries

C6_Step ==
  \A id \in Ids :
    LET before == RetryCountIn(requestQueue, workers, id)
        after == RetryCountIn(requestQueue', workers', id)
    IN /\ (before >= 0 /\ after >= 0 /\ after # before)
            => after = before + 1 /\ BackingOff(workers', id)
       /\ (before < 0 /\ after >= 0) => after = 0
       /\ (\E i \in 1..Len(requestQueue') : requestQueue'[i].id = id)
            /\ ~(\E i \in 1..Len(requestQueue) : requestQueue[i].id = id)
            /\ before >= 0
            => BackingOff(workers, id) /\ after = before

(* C6: every queued or in-progress request has 0 <= retryCount <=        *)
(* maxRetries; retryCount starts at 0, changes only by +1 on entering    *)
(* the backoff that precedes a re-enqueue, and a request re-enters the   *)
(* queue only out of such a backoff                                      *)
C6_RetryCount == []C6_Range /\ [][C6_Step]_vars

(* a request waits in the queue after its third re-enqueue *)
C6_Witness == \E r \in Queued : r.retryCount = maxRetries

(* C7: an accepted request is never silently dropped: until it is        *)
(* settled the queue or the worker holds it                              *)
C7_NeverDropped ==
  \A id \in Accepted :
    settled[id] = "none" => \E r \in Queued \cup Held : r.id = id

(* upstream answers that are fatal, not rate limiting *)
FatalCauses == {"authFailure", "empty", "500"}

(* C8: a lookup that fails with a fatal error is settled as a failure    *)
(* carrying that error, not as a result without data, with retryCount 0  *)
C8_FatalIsFailure ==
  (lastSettle.cause \in FatalCauses /\ lastSettle.retryCount = 0)
    => lastSettle.value = "error"

(* C9: per dequeue the worker issues at most one token call and at most  *)
(* one tracking call; a not-found answer comes back as a value, never    *)
(* as an error to retry, so the request is settled with no data, not     *)
(* with retries-exhausted, and a request whose first answer is           *)
(* not-found has had exactly one tracking call                           *)
C9_NoInternalRetry ==
  /\ \A w \in workers :
       /\ w.calls.token <= 1 /\ w.calls.track <= 1
       /\ (w.pc = "fetchDone" /\ w.result.cause = "empty")
            => w.result.kind = "return"
  /\ lastSettle.cause = "empty" =>
       /\ lastSettle.value = "null"
       /\ lastSettle.retryCount = 0 => trackCalls[lastSettle.id] = 1

(* a request answered not-found was settled, and the worker has gone on  *)
(* to the next request                                                   *)
C9_Witness ==
  /\ lastSettle.cause = "empty"
  /\ lastSettle.retryCount = 0
  /\ trackCalls[lastSettle.id] = 1
  /\ \E w \in workers : w.pc = "trackCall"

CachedTokenValid == cachedToken # "null" /\ tokenTimeLeft > 0

C10_State ==
  /\ CachedTokenValid => TokenInFlight = {}
  /\ \A w \in workers : w.pc = "tokenDone" => CachedTokenValid
  /\ tokenTimeLeft <= TokenLifetime

C10_Step ==
  /\ tokenCalls' # tokenCalls
       => tokenCalls' = tokenCalls + 1 /\ ~CachedTokenValid
  /\ \A w \in workers :
       (w.pc = "rateLimitDone" /\ w \notin workers')
         => IF CachedTokenValid
              THEN tokenCalls' = tokenCalls
              ELSE tokenCalls' = tokenCalls + 1

(* C10: while the cached token is valid (less than TokenLifetime since   *)
(* it was stored) no token call is issued, so lookups in that window     *)
(* cost at most the one call that fetched it; a lookup that checks at or *)
(* after the expiry issues exactly one token call; and a lookup goes on  *)
(* with a token only while that token is valid                           *)
C10_TokenReuse == []C10_State /\ [][C10_Step]_vars

(* two lookups on both sides of the expiry: both answered, two token     *)
(* calls                                                                 *)
C10_Witness ==
  /\ tokenCalls = 2
  /\ settled[1] = "info" /\ trackCalls[1] = 1
  /\ settled[2] = "info" /\ trackCalls[2] = 1

(* ---- the backoff schedule ---- *)
RECURSIVE SumDelays(_)
SumDelays(k) == IF k = 0 THEN 0 ELSE SumDelays(k - 1) + retryDelays[k]

(* the request of the backoff timer that fires in this step *)
Requeued(r) ==
  /\ BackingOff(workers, r.id)
  /\ ~BackingOff(workers', r.id)
  /\ \E w \in workers : w.pc = "backoff" /\ w.request = r

(* the step that re-enqueues r puts it behind everything pending: the    *)
(* worker takes the oldest pending request and r is the last of the      *)
(* queue, or nothing was pending and the worker takes r itself           *)
C11_RequeueAtTail ==
  \A r \in Held :
    Requeued(r) =>
      LET back == [r EXCEPT !.backedOff = SumDelays(r.retryCount)]
      IN IF requestQueue = <<>>
           THEN requestQueue' = <<>> /\ back \in {w.request : w \in workers'}
           ELSE /\ requestQueue' = Append(Tail(requestQueue), back)
                /\ Head(requestQueue) \in {w.request : w \in workers'}

(* the queue changes only at its two ends: requests leave at the front   *)
(* (to the worker, or all of them on clearQueue) and at most one enters  *)
(* at the back, so nothing overtakes a request that waits in the queue   *)
C11_QueueDiscipline ==
  \E k \in 0..Len(requestQueue) : \E n \in 0..1 :
    /\ Len(requestQueue') = Len(requestQueue) - k + n
    /\ \A i \in 1..(Len(requestQueue) - k) :
         requestQueue'[i] = requestQueue[k + i]

(* C11: a request re-enqueued after a rate-limit failure is placed at    *)
(* the tail, and the queue is served from the front only: every request  *)
(* pending at the moment of the re-enqueue is dequeued for its attempt   *)
(* before the re-enqueued request is dequeued again                      *)
C11_TailRequeue == [][C11_RequeueAtTail /\ C11_QueueDiscipline]_vars

(* a re-enqueued request waits at the tail, behind a request submitted   *)
(* after it, while the worker attempts another one that was pending at   *)
(* the re-enqueue                                                        *)
C11_Witness ==
  /\ Len(requestQueue) >= 2
  /\ requestQueue[Len(requestQueue)].retryCount > 0
  /\ requestQueue[1].retryCount = 0
  /\ requestQueue[1].id > requestQueue[Len(requestQueue)].id
  /\ \E w \in workers : w.request.retryCount = 0 /\ w.pc = "trackCall"

(* C12 as claimed: a tracking call that times out is a retryable         *)
(* failure, so no request is settled on a timeout while retries remain   *)
C12_TimeoutRetried ==
  ~(lastSettle.cause = "timeout" /\ lastSettle.retryCount < maxRetries)

C12_State ==
  /\ \A w \in workers :
       (w.pc = "fetchDone" /\ w.result.cause = "timeout")
         => w.result = Returned("null", "timeout")
  /\ lastSettle.cause = "timeout" => lastSettle.value = "null"

C12_Step ==
  \A w \in workers :
    (w.pc = "fetchDone" /\ w.result.cause = "timeout" /\ w \notin workers')
      => /\ settled[w.request.id] = "none"
         /\ settled'[w.request.id] = "null"
         /\ ~BackingOff(workers', w.request.id)
         /\ \A i \in 1..Len(requestQueue') :
              requestQueue'[i].id # w.request.id

(* C12 amended: a tracking call that times out is not retried:           *)
(* fetchTrackingInfo catches the timeout and returns null, and the       *)
(* worker resolves the request with null at once, whatever its           *)
(* retryCount, without backing it off or re-enqueueing it                *)
C12_TimeoutNotRetried == []C12_State /\ [][C12_Step]_vars

(* a first attempt timed out, its request was resolved with null, and    *)
(* the worker has gone on to the next request                            *)
C12_Witness ==
  /\ lastSettle.cause = "timeout"
  /\ lastSettle.value = "null"
  /\ lastSettle.retryCount = 0
  /\ settled[lastSettle.id] = "null"
  /\ \E w \in workers : w.request.id # lastSettle.id

(* C13 as claimed: a lookup for a tracking number that already has an    *)
(* unsettled request is coalesced with it, so no upstream call is made   *)
(* for the later of two unsettled requests for one tracking number       *)
C13_Coalesced ==
  \A r1, r2 \in Queued \cup Held :
    (r1.id < r2.id /\ r1.trackingNumber = r2.trackingNumber)
      => trackCalls[r2.id] = 0

C13_State ==
  \A id \in Ids :
    settled[id] \in {"info", "RetriesExhausted"} => trackCalls[id] >= 1

C13_Step ==
  nextId' # nextId =>
    /\ nextId' = nextId + 1
    /\ \E r \in {requestQueue'[i] : i \in 1..Len(requestQueue')}
                \cup {w.request : w \in workers'} :
         r.id = nextId /\ r.retryCount = 0
    /\ \A r \in Queued \cup Held :
         r \in {requestQueue'[i] : i \in 1..Len(requestQueue')}
               \cup {w.request : w \in workers'}

(* C13 amended: identical lookups are not coalesced: every call of       *)
(* getTrackingInfo enqueues a request of its own, also when an unsettled *)
(* request for the same tracking number is pending or in flight, leaves  *)
(* the other requests as they are, and its promise is resolved with data *)
(* or rejected for rate limiting only after upstream calls made for it   *)
C13_NotCoalesced == []C13_State /\ [][C13_Step]_vars

(* an upstream call is in flight for a tracking number while an earlier, *)
(* unsettled request for the same number, already tried once, waits in   *)
(* the queue                                                             *)
C13_Witness ==
  \E r \in Queued : \E w \in workers :
    /\ w.pc = "trackCall"
    /\ r.trackingNumber = w.request.trackingNumber
    /\ r.id < w.request.id
    /\ trackCalls[r.id] >= 1
    /\ trackCalls[w.request.id] = 1

(* a worker that holds the outcome of a failed authentication *)
AuthFailed(w) == w.pc = "fetchDone" /\ w.result.cause = "authFailure"

C14_State ==
  /\ \A w \in workers : AuthFailed(w) => isProcessingQueue
  /\ (lastSettle.cause = "authFailure" /\ workers = {})
       => ~isProcessingQueue /\ requestQueue = <<>>

C14_Step ==
  \A w \in workers :
    w \notin workers' =>
      \* the token call fails: the cache is left as it was
      /\ (w.pc = "tokenCall"
           /\ \E f \in workers' : AuthFailed(f) /\ f.request = w.request)
           => /\ cachedToken' = cachedToken
              /\ tokenTimeLeft' <= tokenTimeLeft
      \* the failure is handed to the caller and the loop goes on
      /\ AuthFailed(w)
           => /\ settled[w.request.id] = "none"
              /\ settled'[w.request.id] # "none"
              /\ IF requestQueue = <<>>
                   THEN workers' = {} /\ ~isProcessingQueue'
                   ELSE /\ isProcessingQueue'
                        /\ \E n \in workers' :
                             /\ n.request = Head(requestQueue)
                             /\ n.pc \in {"rateLimitSleep", "rateLimitDone"}
      \* without a valid token the next lookup authenticates afresh
      /\ (w.pc = "rateLimitDone" /\ ~CachedTokenValid)
           => \E n \in workers' : n.pc = "tokenCall" /\ n.request = w.request
      \* and goes on to its tracking call when that succeeds
      /\ (w.pc = "tokenCall" /\ cachedToken' = "token"
           /\ tokenTimeLeft' = TokenLifetime)
           => \E n \in workers' : n.pc = "tokenDone" /\ n.request = w.request

(* C14: after an authentication failure the gateway remains usable: the  *)
(* failed attempt leaves cachedToken and tokenExpiry as they were, the   *)
(* worker settles the request and goes on to the next pending one,       *)
(* isProcessingQueue is false again once the queue has drained, and the  *)
(* next lookup makes a fresh token call which, when it succeeds, lets    *)
(* that lookup go on to its tracking call                                *)
C14_UsableAfterAuthFailure == []C14_State /\ [][C14_Step]_vars

(* the first lookup failed to authenticate (settled without a tracking   *)
(* call), the second one authenticated afresh and was answered, and the  *)
(* queue has drained                                                     *)
C14_Witness ==
  /\ settled[1] = "null" /\ trackCalls[1] = 0
  /\ settled[2] = "info" /\ trackCalls[2] = 1
  /\ tokenCalls = 2
  /\ workers = {} /\ ~isProcessingQueue

(* a worker that holds a rate-limit error thrown by fetchTrackingInfo *)
RateLimited(w) ==
  w.pc = "fetchDone" /\ w.result.kind = "throw"
    /\ isRateLimitError(w.result.error)

C15_State ==
  /\ lastSettle.cause = "429"
       => /\ lastSettle.value = "RetriesExhausted"
          /\ lastSettle.retryCount = maxRetries
  /\ \A w \in workers :
       (w.pc = "fetchDone" /\ w.result.cause = "429") => RateLimited(w)

C15_Step ==
  \A w \in workers :
    (RateLimited(w) /\ w \notin workers') =>
      IF w.request.retryCount < maxRetries
        THEN /\ settled' = settled
             /\ settled[w.request.id] = "none"
             /\ BackingOff(workers', w.request.id)
        ELSE /\ w.request.retryCount = maxRetries
             /\ settled'[w.request.id] = "RetriesExhausted"

(* C15: a caller never observes a rate-limit failure while retries       *)
(* remain: a rate-limit error met with retryCount < maxRetries settles   *)
(* nothing and sends the request into backoff, and a promise is rejected *)
(* because of rate limiting only by a rate-limit error met with          *)
(* retryCount = maxRetries                                               *)
C15_RateLimitHidden == []C15_State /\ [][C15_Step]_vars

(* a request rate-limited twice waits in its second backoff, its promise *)
(* still pending                                                         *)
C15_Witness ==
  \E w \in workers :
    /\ w.pc = "backoff"
    /\ w.request.retryCount = 2
    /\ trackCalls[w.request.id] = 2
    /\ settled[w.request.id] = "none"

Unconfigured == apiKey = "" \/ apiSecret = ""

(* a key of 12 to 15 characters, all of them decimal digits *)
TwelveToFifteenDigits(key) ==
  /\ Len(key) >= 12 /\ Len(key) <= 15
  /\ \A i \in 1..Len(key) : key[i] \in Digits

(* C16: without credentials getTrackingInfo resolves null and            *)
(* validateTrackingNumber answers the local format check, true exactly   *)
(* for a key of 12 to 15 decimal digits; neither enqueues a request,     *)
(* starts the worker, touches lastRequestTime or the token cache, or     *)
(* issues an HTTP call                                                   *)
C16_Unconfigured ==
  Unconfigured =>
    /\ requestQueue = <<>> /\ nextId = 1
    /\ workers = {} /\ ~isProcessingQueue
    /\ timeSinceLastRequest = minRequestInterval
    /\ cachedToken = "null" /\ tokenTimeLeft = 0
    /\ tokenCalls = 0 /\ \A id \in Ids : trackCalls[id] = 0
    /\ lastAnswer.op = "getTrackingInfo" => lastAnswer.value = "null"
    /\ lastAnswer.op = "validateTrackingNumber" =>
         /\ lastAnswer.value \in {"true", "false"}
         /\ lastAnswer.value = "true" <=> TwelveToFifteenDigits(lastAnswer.key)

(* with the secret missing, a key of 15 digits was found valid *)
C16_Witness ==
  /\ apiKey = "key" /\ apiSecret = ""
  /\ lastAnswer.op = "validateTrackingNumber"
  /\ Len(lastAnswer.key) = MaxDigits
  /\ lastAnswer.value = "true"

(* the shipment the sync request knows for the row in hand *)
RowInHand == sync.dbShipments[Head(sync.rows)]

Completed(shipment) ==
  Exists(shipment)
    /\ (shipment.status = "delivered" \/ shipment.manuallyCompleted = 1)

C17_State ==
  /\ \A t \in TrackingNumbers :
       /\ Completed(db[t]) => ~shouldRefreshShipment(db[t])
       /\ Completed(sync.dbShipments[t])
            => ~shouldRefreshShipment(sync.dbShipments[t])
  /\ sync.pc = "fedex" => ~Completed(RowInHand)

C17_Step ==
  (sync.pc = "row" /\ sync'.pc # "row" /\ Completed(RowInHand))
    => /\ sync'.pc = "upsertGet"
       /\ ~sync'.fetched

RefreshDue(status, since) ==
  \/ status = "out_for_delivery" /\ 2 * since >= MsPerHour
  \/ status = "in_transit" /\ since >= 2 * MsPerHour
  \/ status \in {"pending", "exception"} /\ since >= MsPerHour

(* C18: a sync that runs at least 30 minutes (out_for_delivery), 2 hours *)
(* (in_transit) or 1 hour (pending, exception) after the last FedEx      *)
(* fetch of a shipment that is still in the sheet calls getTrackingInfo  *)
(* for it, whatever cache-hit syncs came in between                      *)
C18_RefetchedOnSchedule ==
  [][(/\ sync.pc = "row"
      /\ sync'.pc # "row"
      /\ Exists(RowInHand)
      /\ RowInHand.manuallyCompleted = 0
      /\ RefreshDue(RowInHand.status, sinceFetch[Head(sync.rows)]))
       => sync'.pc = "fedex"]_vars

(* the columns of a shipment that FedEx data goes into *)
FedExColumns(shipment) ==
  <<shipment.status, shipment.scheduledDelivery, shipment.fedexRawData,
    shipment.childTrackingNumbers>>

C19_State ==
  /\ settlement("timeout") = [kind |-> "resolve", value |-> "null"]
  /\ lastResponse.cause = "timeout"
       => /\ lastResponse.status = 200
          /\ lastResponse.message = "No new tracking data available"
          /\ Exists(lastResponse.shipment)
  /\ refresh.cause # "timeout"

C19_Step ==
  (/\ refresh.pc = "fedex"
   /\ refresh'.pc # "fedex"
   /\ \/ refresh'.cause = "timeout"
      \/ refresh' = IdleRefresh /\ lastResponse'.cause = "timeout")
    => /\ refresh' = IdleRefresh
       /\ lastResponse'.message = "No new tracking data available"
       /\ lastResponse'.shipment = refresh.shipment
       /\ FedExColumns(lastResponse'.shipment)
            = FedExColumns(db[refresh.trackingNumber])
       /\ db' = db

(* C19: a tracking request whose HTTP call times out is resolved with no *)
(* data, and the refresh route then answers 200 with the shipment it     *)
(* read from the table, without a write: status, scheduledDelivery,      *)
(* fedexRawData and childTrackingNumbers stay as they were               *)
C19_TimeoutKeepsStored == []C19_State /\ [][C19_Step]_vars

(* a refresh of a shipment in transit timed out and was answered with    *)
(* the row as stored                                                     *)
C19_Witness ==
  /\ lastResponse.cause = "timeout"
  /\ lastResponse.shipment.status = "in_transit"
  /\ lastResponse.shipment.fedexRawData # <<>>
  /\ FedExColumns(lastResponse.shipment) = FedExColumns(db[SheetOrder[1]])
  /\ refresh = IdleRefresh

(* ---- the bulk-import script, when it has finished ---- *)
Masters ==
  {rawRows[i].masterTrackingNumber[1] :
     i \in {k \in 1..Len(rawRows) : rawRows[k].masterTrackingNumber # undefined}}
RowsOf(m) == SelectSeq(rawRows, LAMBDA r : r.masterTrackingNumber = <<m>>)
Unmastered == SelectSeq(rawRows, LAMBDA r : r.masterTrackingNumber = undefined)
TrackingNumbersOf(rows) == [i \in 1..Len(rows) |-> rows[i].trackingNumber]
GroupRecords == SelectSeq(parsed, LAMBDA p : p.childTrackingNumbers # undefined)
StandaloneRecords ==
  SelectSeq(parsed, LAMBDA p : p.childTrackingNumbers = undefined)
firstField(line) ==
  trim(IF includes(line, Tab) THEN split(line, Tab)[1] ELSE line)

BackingOffNow(W) == {w \in W : w.pc = "backoff"}
BackoffBegins ==
  /\ BackingOffNow(workers) = {}
  /\ BackingOffNow(workers') # {}

(* C21 as stated: when the backoff of one request begins while other     *)
(* requests are pending in the queue, the oldest of them is dequeued and *)
(* on its way upstream during that delay                                 *)
C21_OthersProgress ==
  [][(BackoffBegins /\ requestQueue # <<>>) =>
       \E o \in workers' :
         /\ o.pc # "backoff"
         /\ o.request.id = Head(requestQueue).id]_vars

(* C21, amended: while the backoff delay of a request is elapsing, the   *)
(* worker loop is held by that delay: no other request is dequeued or    *)
(* sent upstream, and the queue only grows (or is cleared).  When the    *)
(* delay has elapsed the request goes behind the pending ones, and the   *)
(* oldest of them all is dequeued                                        *)
C21_State ==
  \A w \in BackingOffNow(workers) : workers = {w} /\ isProcessingQueue
C21_Step ==
  \A w \in BackingOffNow(workers) :
    IF BackingOffNow(workers') # {}
      THEN \/ requestQueue' = requestQueue
           \/ requestQueue' = <<>>
           \/ /\ Len(requestQueue') = Len(requestQueue) + 1
              /\ SubSeq(requestQueue', 1, Len(requestQueue)) = requestQueue
      ELSE LET q == push(requestQueue,
                         [w.request EXCEPT
                            !.backedOff = SumDelays(w.request.retryCount)])
           IN /\ requestQueue' = Tail(q)
              /\ \E o \in workers' : o.request = Head(q)
C21_BackoffHoldsQueue == []C21_State /\ [][C21_Step]_vars

(* a request backs off for the second time while two others are in *)
(* the queue                                                       *)
C21_Witness ==
  \E w \in BackingOffNow(workers) :
    /\ Len(requestQueue) = 2
    /\ w.request.retryCount = 2

Requests ==
  {requestQueue[i] : i \in 1..Len(requestQueue)}
    \cup {w.request : w \in workers}

(* C22: the k-th retry of a request (k = 1, 2, 3) is preceded by a       *)
(* backoff of retryDelays[k-1] = 30 s, 60 s, 120 s, a strictly           *)
(* increasing schedule never indexed outside 0..2; a request settled     *)
(* after k rate-limit failures has spent the sum of the first k delays   *)
(* in backoff since its first attempt                                    *)
C22_State ==
  /\ retryDelays = <<30000, 60000, 120000>>
  /\ \A i \in 1..(Len(retryDelays) - 1) : retryDelays[i] < retryDelays[i + 1]
  /\ \A w \in BackingOffNow(workers) :
       /\ w.request.retryCount - 1 \in 0..2
       /\ w.request.backedOff + w.at = SumDelays(w.request.retryCount)
  /\ \A r \in Requests \ {w.request : w \in BackingOffNow(workers)} :
       r.backedOff = SumDelays(r.retryCount)
C22_Step ==
  /\ \A w \in BackingOffNow(workers') :
       (~\E o \in BackingOffNow(workers) : o.request.id = w.request.id)
         => w.at = retryDelays[w.request.retryCount]
  /\ \A w \in workers :
       (settled[w.request.id] = "none" /\ settled'[w.request.id] # "none")
         => w.request.backedOff >= SumDelays(w.request.retryCount)
C22_BackoffSchedule == []C22_State /\ [][C22_Step]_vars

(* a request has been resolved with data after three rate-limit failures *)
C22_Witness ==
  /\ lastSettle.value = "info"
  /\ lastSettle.retryCount = 3
  /\ trackCalls[lastSettle.id] = 4

(* ---- the end of the worker loop ---- *)
Accepts == nextId' = nextId + 1
LoopEnds == isProcessingQueue /\ ~isProcessingQueue'
SettlesOne == settled' # settled

(* C23: the worker loop ends, with isProcessingQueue = false, exactly    *)
(* when it finds the queue empty, and no request is stranded: whenever   *)
(* control is back in the event loop, isProcessingQueue = false implies  *)
(* an empty queue (and no worker), and a getTrackingInfo call made then  *)
(* starts a worker that holds its request; one made while the loop runs  *)
(* leaves its request in the queue of that loop                          *)
C23_State ==
  ~isProcessingQueue => (requestQueue = <<>> /\ workers = {})
C23_Step ==
  /\ LoopEnds => (SettlesOne /\ requestQueue = <<>> /\ workers' = {})
  /\ (SettlesOne /\ requestQueue = <<>>) => LoopEnds
  /\ (SettlesOne /\ requestQueue # <<>>) =>
       (isProcessingQueue' /\ \E w \in workers' : w.request = Head(requestQueue))
  /\ (Accepts /\ ~isProcessingQueue) =>
       /\ isProcessingQueue'
       /\ requestQueue' = <<>>
       /\ \E w \in workers' : w.request.id = nextId
  /\ (Accepts /\ isProcessingQueue) =>
       /\ isProcessingQueue'
       /\ workers' = workers /\ workers # {}
       /\ requestQueue'[Len(requestQueue')].id = nextId
C23_LoopEndsOnEmptyQueue == []C23_State /\ [][C23_Step]_vars

(* a worker runs for a request that came after the loop had ended: the  *)
(* token of the earlier run has expired in the idle time between        *)
C23_Witness ==
  /\ cachedToken = "token"
  /\ tokenTimeLeft = 0
  /\ settleOrder # <<>>
  /\ isProcessingQueue
  /\ workers # {}

(* ---- single settlement ---- *)
QueueIds == {requestQueue[i].id : i \in 1..Len(requestQueue)}
HeldIds == {w.request.id : w \in workers}

StatusAnswered ==
  /\ lastAnswer'.op = "getQueueStatus"
  /\ lastAnswer.op = "getQueueStatus" => lastAnswer'.value # lastAnswer.value

(* C24: no promise is settled more than once and no request is           *)
(* duplicated: a request is at most once in requestQueue, never in the   *)
(* queue while a worker holds it (in flight or backing off), and never   *)
(* settled while it is queued or awaits a retry; getQueueStatus writes   *)
(* nothing and its queueLength counts the requests in requestQueue, not  *)
(* the one the worker holds                                              *)
C24_State ==
  /\ Cardinality(QueueIds) = Len(requestQueue)
  /\ Cardinality(HeldIds) = Cardinality(workers)
  /\ QueueIds \cap HeldIds = {}
  /\ \A id \in QueueIds \cup HeldIds : settled[id] = "none"
  /\ \A i, j \in 1..Len(settleOrder) :
       settleOrder[i].id = settleOrder[j].id => i = j
  /\ lastAnswer.op \in {"", "getQueueStatus"}
C24_Step ==
  /\ \A id \in Ids : settled[id] # "none" => settled'[id] = settled[id]
  /\ \A id \in Ids :
       (settled[id] = "none" /\ settled'[id] # "none") => id \in HeldIds
  /\ StatusAnswered =>
       /\ UNCHANGED <<service, apiKey, apiSecret, database,
                      bulkImport, storageCalls, spared>>
       /\ lastAnswer'.value.isProcessing = isProcessingQueue
       /\ lastAnswer'.value.queueLength = Cardinality(QueueIds)
       /\ lastAnswer'.value.queueLength =
            Cardinality(QueueIds \cup HeldIds) - Cardinality(HeldIds)
C24_SettledOnce == []C24_State /\ [][C24_Step]_vars

(* getQueueStatus has answered 1 while the worker held one request and *)
(* another was queued, and a request has been settled after a retry    *)
C24_Witness ==
  /\ lastAnswer.op = "getQueueStatus"
  /\ lastAnswer.value.queueLength = 1
  /\ Len(requestQueue) = 1
  /\ workers # {}
  /\ \E i \in 1..Len(settleOrder) : settleOrder[i].retryCount > 0

(* ---- clearQueue and the request in hand ---- *)
Cleared == requestQueue # <<>> /\ requestQueue' = <<>> /\ ~SettlesOne

(* what clearQueue leaves alone, and what becomes of a held request: it *)
(* stays with the worker until it is settled or, after its backoff,     *)
(* pushed to the queue again                                            *)
C25_Step ==
  /\ Cleared =>
       /\ HeldIds' = HeldIds
       /\ \A w \in workers : \E o \in workers' :
            /\ o.request.id = w.request.id
            /\ o.request.retryCount = w.request.retryCount
            /\ <<o.pc, o.at, o.result>> = <<w.pc, w.at, w.result>>
       /\ UNCHANGED <<isProcessingQueue, timeSinceLastRequest, cachedToken,
                      tokenTimeLeft, settled>>
  /\ \A w \in workers :
       \/ w.request.id \in HeldIds'
       \/ settled'[w.request.id] # "none"
       \/ /\ w.pc = "backoff"
          /\ w.request.id \in QueueIds'

(* C25: clearQueue removes only the requests still in requestQueue and   *)
(* changes neither isProcessingQueue, lastRequestTime nor the cached     *)
(* token; the request the worker holds at that moment (in flight or in   *)
(* backoff) still runs to completion, re-enqueued after the clear if it  *)
(* is retried, and is settled                                            *)
C25_HeldIsSettled ==
  /\ [][C25_Step]_vars
  /\ \A id \in Ids : (id \in spared) ~> (settled[id] # "none")

(***************************************************************************)
(* C26: upsertShipment calls for one tracking number that run side by side *)
(* behave as last-write-wins: in every interleaving each of the calls      *)
(* succeeds, one row with that tracking number exists, and it holds the    *)
(* non-null fields of the call that wrote later.  The table is keyed by    *)
(* tracking number, so it never holds more than one such row.              *)
(***************************************************************************)
UpsertsOf(t) ==
  {c \in Callers : /\ Call(c).op = "upsertShipment"
                   /\ Call(c).trackingNumber = t}

(* the calls for t are over, and two of them were upserts *)
UpsertsOver(t) ==
  /\ Cardinality(UpsertsOf(t)) >= 2
  /\ \A c \in Callers :
       Call(c).trackingNumber = t => Call(c).pc \in {"idle", "done"}

LaterWrite(t) ==
  CHOOSE c \in UpsertsOf(t) : \A o \in UpsertsOf(t) : Call(o).seq <= Call(c).seq

HoldsWrite(row, insertShipment) ==
  /\ row.status = insertShipment.status
  /\ insertShipment.scheduledDelivery # ""
       => row.scheduledDelivery = insertShipment.scheduledDelivery

C26_LastWriteWins ==
  \A t \in TrackingNumbers :
    UpsertsOver(t) =>
      /\ \A c \in UpsertsOf(t) : Call(c).result = "ok"
      /\ Exists(db[t])
      /\ HoldsWrite(db[t], Call(LaterWrite(t)).insertShipment)

(***************************************************************************)
(* C30: updateChildTrackingNumbers only grows the child set.  The write of *)
(* a call leaves the duplicate-free union of the numbers stored and the    *)
(* numbers supplied; applying an input twice gives what applying it once   *)
(* gives; and when two calls for one shipment that ran side by side are    *)
(* over, the stored set contains the numbers of both.                      *)
(***************************************************************************)
Range(array) == {array[i] : i \in 1..Len(array)}
DuplicateFree(array) ==
  \A i, j \in 1..Len(array) : array[i] = array[j] => i = j

ChildWrites(t) ==
  {c \in Callers : /\ Call(c).op = "updateChildTrackingNumbers"
                   /\ Call(c).trackingNumber = t
                   /\ Call(c).result = "ok"}

StoredChildren ==
  {<<>>, <<"881">>, <<"882">>, <<"881", "882">>, <<"882", "881">>}

C30_State ==
  /\ \A stored \in StoredChildren : \A b \in ChildBodies :
       LET supplied == validTrackingNumbers(b)
           once == mergedChildren(stored, supplied)
       IN /\ mergedChildren(once, supplied) = once
          /\ DuplicateFree(once)
          /\ Range(once) = Range(stored) \cup Range(supplied)
  /\ \A t \in TrackingNumbers :
       Cardinality(ChildWrites(t)) >= 2 =>
         \A c \in ChildWrites(t) :
           Range(Call(c).childTrackingNumbers)
             \subseteq Range(db[t].childTrackingNumbers)

C30_Step ==
  \A c \in Callers :
    (/\ Call(c).op = "updateChildTrackingNumbers"
     /\ Call(c).pc = "write"
     /\ storageCalls'[c].pc = "done")
    => LET t == Call(c).trackingNumber
       IN /\ DuplicateFree(db'[t].childTrackingNumbers)
          /\ Range(db'[t].childTrackingNumbers)
               = Range(db[t].childTrackingNumbers)
                   \cup Range(Call(c).childTrackingNumbers)

C30_OnlyGrows == []C30_State /\ [][C30_Step]_vars

(***************************************************************************)
(* C27: the sync and the refresh of a shipment leave its stored child      *)
(* tracking numbers as they are when the FedEx data is absent or lists no  *)
(* child tracking numbers: a step of either route changes the child        *)
(* tracking numbers of a stored shipment only when it writes FedEx data    *)
(* that lists some, or when the sync deletes the shipment because the      *)
(* sheet does not list it.                                                 *)
(***************************************************************************)
SyncWrites(t) ==
  /\ sync.pc = "upsertWrite"
  /\ sync.shipmentData.trackingNumber = t
  /\ sync' # sync

RefreshWrites(t) ==
  /\ refresh.pc = "update"
  /\ refresh.trackingNumber = t
  /\ refresh' # refresh

SyncDeletes(t) ==
  /\ sync.pc = "delete"
  /\ Head(sync.toDelete) = t
  /\ sync' # sync

WritesChildren(t) ==
  \/ SyncWrites(t) /\ sync.shipmentData.childTrackingNumbers # <<>>
  \/ RefreshWrites(t) /\ refresh.fedexData.childTrackingNumbers # <<>>

C27_Step ==
  \A t \in TrackingNumbers :
    (Exists(db[t]) /\ ~SyncDeletes(t) /\ ~WritesChildren(t))
      => /\ Exists(db'[t])
         /\ db'[t].childTrackingNumbers = db[t].childTrackingNumbers

C28_Step ==
  \A t \in TrackingNumbers :
    (SyncWrites(t) /\ ~sync.fetched /\ Exists(db[t]))
      => /\ db'[t].status = db[t].status
         /\ db'[t].fedexRawData = db[t].fedexRawData

C28_CachedSyncKeepsRefresh == [][C28_Step]_vars

(***************************************************************************)
(* C29: the sync deletes exactly the stored shipments whose tracking       *)
(* number is not in the rows it read from the Output sheet.  The           *)
(* shipments it sets out to delete are the stored ones the rows do not     *)
(* list; a deletion removes one of those and nothing else; a shipment the  *)
(* rows list stays stored through every step of the sync with its id,      *)
(* notScanned and manuallyCompleted; and when a sync that no other writer  *)
(* of rows ran beside is over, every stored tracking number is in the rows *)
(* it read.                                                                *)
(***************************************************************************)
SheetTrackingNumbers == Range(sync.sheetData)

C29_Step ==
  /\ (sync.pc = "getAll" /\ sync' # sync)
       => /\ DuplicateFree(sync'.toDelete)
          /\ Range(sync'.toDelete)
               = {t \in TrackingNumbers :
                    Exists(db[t]) /\ t \notin SheetTrackingNumbers}
  /\ \A t \in TrackingNumbers :
       SyncDeletes(t)
         => /\ t \notin SheetTrackingNumbers
            /\ ~Exists(db'[t])
            /\ \A o \in TrackingNumbers \ {t} : db'[o] = db[o]
  /\ sync' # sync
       => \A t \in SheetTrackingNumbers :
            Exists(db[t])
              => /\ db'[t].id = db[t].id
                 /\ db'[t].notScanned = db[t].notScanned
                 /\ db'[t].manuallyCompleted = db[t].manuallyCompleted
  /\ (sync.pc # "idle" /\ sync'.pc = "idle")
       => \A t \in TrackingNumbers :
            Exists(db'[t]) => t \in SheetTrackingNumbers

C29_DeletesUnlisted == [][C29_Step]_vars

(* a sync is over that deleted the shipment the sheet does not list and *)
(* wrote the listed one, which is marked                                *)
C29_Witness ==
  /\ sync.pc = "idle"
  /\ rowsCreated = 2
  /\ ~Exists(db[Unlisted])
  /\ db[SheetOrder[1]].id = 1
  /\ db[SheetOrder[1]].notScanned = 1
  /\ db[SheetOrder[1]].manuallyCompleted = 1
  /\ db[SheetOrder[1]].childTrackingNumbers = <<"333333333333">>
  /\ db[SheetOrder[1]].status = "out_for_delivery"

=============================================================================
